---------------------------- MODULE Spec2Model ----------------------------
(***************************************************************************)
(* A model of presser's cron scheduler (crates/presser-scheduler) and of   *)
(* its ingestion pipeline (crates/presser-core, presser-feeds, presser-db).*)
(*                                                                         *)
(* Time is counted in whole seconds, the granularity of cron fire times.   *)
(* One step of the scheduler is one synchronous section of the code        *)
(* between two await points: a registry operation under the tasks write    *)
(* lock, the due-task scan of a tick, one iteration of the dispatch loop,  *)
(* and so on.  One step of the pipeline is one whole call of the engine or *)
(* of the store (update_feed, update_all_feeds, add_feed, remove_feed,     *)
(* mark_read, mark_unread): the calls are taken one after the other, and   *)
(* the store is taken to answer every statement.                           *)
(***************************************************************************)
EXTENDS Integers, Naturals, Sequences, FiniteSets, TLC

\* ------------------------------------------------------------------ bounds

\* The clock runs from 0 to MaxTime.
MaxTime == 2
\* Scheduler::new is called with a ceiling in 1..MaxCeiling.
MaxCeiling == 2
\* The last second of the year the year-restricted expression names.
YearEnd == 1
\* The most items a source serves in one document.
MaxItems == 2
\* The clock of the store runs from 0 to MaxStoreTime.
MaxStoreTime == 1

\* Task ids, executors, callers of start() and callers of stop().
Ids == {"a", "b"}
Executors == {"x1", "x2"}
Loops == {"l1", "l2"}
Stoppers == {"s1", "s2"}

\* Option::None of a DateTime.
NoTime == 0 - 1

\* The sleep of one select! iteration, in seconds.
TickInterval == 1

\* ------------------------------------------------------- cron expressions

\* The inputs schedule() is called with: two six-field expressions, a
\* seven-field expression restricted to one year, and a malformed one.
Exprs == {"* * * * * *", "*/2 * * * * *", "* * * * * * Y", "* * * *"}

\* What a malformed expression parses to.
Invalid == [every |-> 0, finite |-> FALSE, until |-> 0]

\* cron::Schedule::from_str: the fire times of an expression are the
\* multiples of `every`, up to `until` when the expression is finite.
Parse(expr) ==
  CASE expr = "* * * * * *"   -> [every |-> 1, finite |-> FALSE, until |-> 0]
    [] expr = "*/2 * * * * *" -> [every |-> 2, finite |-> FALSE, until |-> 0]
    [] expr = "* * * * * * Y" -> [every |-> 1, finite |-> TRUE, until |-> YearEnd]
    [] OTHER                  -> Invalid

\* Whether schedule s fires at second t.
IsFire(s, t) == /\ s # Invalid
                /\ t % s.every = 0
                /\ s.finite => t <= s.until

\* A wrong upcoming: the first fire time at or after t.
UpcomingInclusive(s, t) ==
  LET c == ((t + s.every - 1) \div s.every) * s.every
  IN  IF s.finite /\ c > s.until THEN NoTime ELSE c

\* schedule.upcoming(Utc).next() evaluated when the clock reads t: the first
\* fire time strictly after t, or None when the schedule has none left.
Upcoming(s, t) ==
  LET c == ((t \div s.every) + 1) * s.every
  IN  IF s.finite /\ c > s.until THEN NoTime ELSE c

\* ------------------------------------------------------------------ state

VARIABLES
  clock,           \* Utc::now(), in seconds
  max_concurrent,  \* the ceiling given to Scheduler::new
  tasks,           \* Scheduler.tasks: the ScheduledTask records of the map
  handles,         \* Scheduler.handles: the stored JoinHandles of the
                   \* executions that have not finished (the handle of a
                   \* finished one is awaited at once and is left out)
  hlock,           \* the holder of the handles write lock, or "free"
  running,         \* Scheduler.running
  permits,         \* the free permits of Scheduler.semaphore
  inflight,        \* the spawned executions that have not finished
  lpc,             \* where each caller of start() is
  sig,             \* whether a shutdown message waits in a loop's receiver
  since,           \* when the sleep of a loop's select! began
  now,             \* tick's local `now`
  todo,            \* tick's local `tasks_to_run`, what is left of it
  newh,            \* tick's local `new_handles`
  denied,          \* the ids a tick skipped for want of a permit
  spc,             \* where each caller of stop() is
  rereg,           \* the executions that were in flight when schedule()
                   \* replaced the task of their id
  ev,              \* the last step the scheduler took
  feeds,           \* the rows of the feeds table
  entries,         \* the rows of the entries table
  call,            \* the last call of the pipeline, with what it fetched
                   \* and what it returned
  upd,             \* the row each caller of update_feed has loaded and not
                   \* yet written back
  app,             \* the App of the terminal interface
  tlock,           \* the holder of the tasks write lock, or "free"
  config,          \* AiClient.config
  cache,           \* AiClient.cache: the pairs of the map
  readers,         \* the callers of summarize() that hold a read guard of
                   \* the cache
  sum,             \* where each caller of summarize() is, with its content
                   \* and what it has got so far
  last,            \* the last call of the client that returned
  before,          \* the call of the client that returned before it
  provided         \* the texts the provider has returned, by content

vars == <<clock, max_concurrent, tasks, handles, hlock, running, permits,
          inflight, lpc, sig, since, now, todo, newh, denied, spc, rereg, ev,
          feeds, entries, call, tlock, config, cache, readers, sum, last,
          before, provided, upd, app>>

\* The store, the scheduler without the clock, and the summarization
\* client.
store == <<feeds, entries, call>>
scheduler == <<max_concurrent, tasks, handles, hlock, running, permits,
               inflight, lpc, sig, since, now, todo, newh, denied, spc,
               rereg, ev, tlock>>
client == <<config, cache, readers, sum, last, before, provided>>

\* The overlapping callers of update_feed and the terminal interface.
front == <<upd, app>>

Event(op, who, id, expr, ex, ok) ==
  [op |-> op, who |-> who, id |-> id, expr |-> expr, ex |-> ex, ok |-> ok]

\* ------------------------------------------------ feeds and their payloads

\* Option::None of a String.
None == "None"

\* The feed ids of the store.
FeedIds == {"f1", "f2"}

\* The url a feed is added with.
UrlOf(id) == "https://" \o id

\* What a source serves of a feed: title, description and alternate link.
Metas ==
  {[title |-> "News", description |-> None, site_url |-> None],
   [title |-> "Tech", description |-> "d", site_url |-> "https://site"]}

\* The items a source serves, as feed_rs hands them over: one with a native
\* id, and three without, of which the second is the first with its body
\* edited and the third is the first with its title edited.
Native == [id |-> "guid-1", link |-> "https://a/1", title |-> "One",
           published |-> 0, summary |-> "s"]
Plain == [id |-> "", link |-> "https://a/2", title |-> "Two",
          published |-> 0, summary |-> "s"]
PlainBody == [Plain EXCEPT !.summary = "s, edited"]
PlainTitle == [Plain EXCEPT !.title = "Two!"]
Items == {Native, Plain, PlainBody, PlainTitle}

\* The sequences over S of length n, and of length at most n.
SeqOfLen(S, n) == [1..n -> S]
SeqUpTo(S, n) == UNION {SeqOfLen(S, k) : k \in 0..n}

\* What FeedFetcher::fetch meets: a failure of the transport, of the status
\* or of the parser (err is its message), or a document of a feed.
Response(err, meta, items) == [err |-> err, meta |-> meta, items |-> items]
NoMeta == [title |-> "", description |-> None, site_url |-> None]
NoResponse == Response(None, NoMeta, <<>>)
FetchErrors == {"HTTP 503", "Failed to parse feed"}
Failures == {Response(e, NoMeta, <<>>) : e \in FetchErrors}
Documents(metas, items, n) ==
  {Response(None, m, p) : m \in metas, p \in SeqUpTo(items, n)}

\* A call of the pipeline: whether it returned Ok, whether it called the
\* fetcher, the response the fetcher met, or met for each feed, whether
\* the call repeats the call before it, the limit and the rows of a query,
\* and the number of the entry rows a delete took with it.
NoBatch == [id \in FeedIds |-> NoResponse]
Call(op, id, ok, fetched, res) ==
  [op |-> op, id |-> id, ok |-> ok, fetched |-> fetched, res |-> res,
   batch |-> NoBatch, repeat |-> FALSE, limit |-> 0, rows |-> <<>>,
   gone |-> 0]

\* ------------------------------------------------ the summarization client

\* The callers of summarize().
Summarizers == {"c1", "c2"}

\* The contents summarize() is called with, the system prompts and the
\* models a client is configured with.  The second content is the first
\* with the head of the first prompt at its end, and the second model is
\* the first with a suffix.
Contents == {"a", "ab"}
Prompts == {"bc", "c"}
Models == {"gpt-4", "gpt-4-turbo-preview"}
Providers == {"OpenAI", "Anthropic", "Local"}

\* The fields of AiConfig the model keeps; api_key, endpoint, max_tokens
\* and temperature are given to the provider.
Configs ==
  [provider : Providers, model : Models, system_prompt : Prompts,
   enable_cache : BOOLEAN]

\* The configuration the first client is made with.
FirstConfig ==
  [provider |-> "OpenAI", model |-> "gpt-4", system_prompt |-> "c",
   enable_cache |-> TRUE]

\* The capability of a provider: a text of the content, or an error.
Texts == {"t1", "t2"}
ProviderErrors == {"rate limit"}
Provide(provider, content) ==
  {[ok |-> TRUE, text |-> t] : t \in Texts}
    \cup {[ok |-> FALSE, text |-> e] : e \in ProviderErrors}

\* A caller of summarize(): where it is, the content and the key of its
\* call, and what the call has got or returned: the text or the message of
\* the error, Summary.cached, Ok or Err, and the calls of a provider.
Caller(pc, content, key, text, cached, ok, invoked) ==
  [pc |-> pc, content |-> content, key |-> key, text |-> text,
   cached |-> cached, ok |-> ok, invoked |-> invoked]
Idle == Caller("idle", "", None, None, FALSE, TRUE, 0)

\* A call of the client that has returned, with the prompt and the model
\* of the client it was made on.
Returned(op, cfg, c) ==
  [op |-> op, prompt |-> cfg.system_prompt, model |-> cfg.model,
   content |-> c.content, key |-> c.key, text |-> c.text,
   cached |-> c.cached, ok |-> c.ok, invoked |-> c.invoked]

\* The callers of update_feed that overlap.
Updaters == {"u1", "u2"}

\* The fields of App the model keeps; a ListState is the selected place, 0
\* for None.  Before App::new the page is "Closed".
Closed ==
  [page |-> "Closed", feeds |-> <<>>, feed_state |-> 0, entries |-> <<>>,
   entry_state |-> 0, current_entry |-> {}]

\* Scheduler::new(max_concurrent) with max_concurrent > 0, the store after
\* Database::open and migrate, and AiClient::new of a configuration.
Init ==
  /\ clock = 0
  /\ max_concurrent \in 1..MaxCeiling
  /\ tasks = {}
  /\ handles = {}
  /\ hlock = "free"
  /\ running = FALSE
  /\ permits = max_concurrent
  /\ inflight = {}
  /\ lpc = [l \in Loops |-> "idle"]
  /\ sig = [l \in Loops |-> FALSE]
  /\ since = [l \in Loops |-> NoTime]
  /\ now = [l \in Loops |-> NoTime]
  /\ todo = [l \in Loops |-> <<>>]
  /\ newh = [l \in Loops |-> {}]
  /\ denied = [l \in Loops |-> {}]
  /\ spc = [s \in Stoppers |-> "idle"]
  /\ rereg = {}
  /\ ev = Event("new", "", "", "", "", TRUE)
  /\ feeds = {}
  /\ entries = {}
  /\ call = Call("open", "", TRUE, FALSE, NoResponse)
  /\ tlock = "free"
  /\ config = FirstConfig
  /\ cache = {}
  /\ readers = {}
  /\ sum = [c \in Summarizers |-> Idle]
  /\ last = Returned("new", config, Idle)
  /\ before = Returned("new", config, Idle)
  /\ provided = {}
  /\ upd = [u \in Updaters |-> {}]
  /\ app = Closed

\* ------------------------------------------------------------ the registry

\* The tasks registered under id.
Registered(ts, id) == {t \in ts : t.id = id}

\* A wrong insert: a push that keeps the entry already there.
InsertKeeping(ts, task) == ts \cup {task}

\* HashMap::insert: the entry of the same key is replaced.
Insert(ts, task) == {t \in ts : t.id # task.id} \cup {task}

\* A wrong remove: the map is left as it was.
RemoveNothing(ts, id) == ts

\* HashMap::remove.
Remove(ts, id) == {t \in ts : t.id # id}

\* A wrong schedule: an expression that does not parse unregisters the id.
ScheduleDropping(ts, id, expr, ex, clk) ==
  IF Parse(expr) = Invalid \/ Upcoming(Parse(expr), clk) = NoTime
  THEN Remove(ts, id)
  ELSE Insert(ts, [id |-> id, schedule |-> Parse(expr), last_run |-> NoTime,
                   next_run |-> Upcoming(Parse(expr), clk), executor |-> ex])

\* The registry after schedule(id, expr, ex) called when the clock reads clk.
ScheduleResult(ts, id, expr, ex, clk) ==
  LET s == Parse(expr) IN
  IF s = Invalid THEN ts
  ELSE LET next_run == Upcoming(s, clk) IN
       IF next_run = NoTime THEN ts
       ELSE Insert(ts, [id |-> id, schedule |-> s, last_run |-> NoTime,
                        next_run |-> next_run, executor |-> ex])

\* Whether schedule(id, expr, ex) returns Ok.
ScheduleOk(expr, clk) ==
  /\ Parse(expr) # Invalid
  /\ Upcoming(Parse(expr), clk) # NoTime

\* schedule(id, expr, ex): the parse, and the insert under the tasks write
\* lock.
Schedule(id, expr, ex) ==
  /\ ScheduleOk(expr, clock) => tlock = "free"
  /\ tasks' = ScheduleResult(tasks, id, expr, ex, clock)
  /\ ev' = IF ScheduleOk(expr, clock)
           THEN Event(IF Registered(tasks, id) = {} THEN "schedule"
                      ELSE "reschedule", "", id, expr, ex, TRUE)
           ELSE Event("schedule", "", id, expr, "", FALSE)
  /\ rereg' = IF ScheduleOk(expr, clock) /\ Registered(tasks, id) # {}
              THEN rereg \cup {e \in inflight : e.id = id}
              ELSE rereg
  /\ UNCHANGED <<clock, max_concurrent, handles, hlock, running, permits,
                 inflight, lpc, sig, since, now, todo, newh, denied, spc,
                 tlock, store, client, front>>

\* A wrong unschedule: the executions of the id are aborted with it.
UnscheduleCancelling(id) ==
  /\ tlock = "free"
  /\ tasks' = Remove(tasks, id)
  /\ inflight' = {e \in inflight : e.id # id}
  /\ permits' = permits + Cardinality({e \in inflight : e.id = id})
  /\ handles' = {e \in handles : e.id # id}
  /\ ev' = Event("unschedule", "", id, "", "", TRUE)
  /\ UNCHANGED <<clock, max_concurrent, hlock, running, lpc, sig, since, now,
                 todo, newh, denied, spc, rereg,
                 tlock, store, client, front>>

\* unschedule(id): HashMap::remove under the tasks write lock, then Ok.
Unschedule(id) ==
  /\ tlock = "free"
  /\ tasks' = Remove(tasks, id)
  /\ ev' = Event("unschedule", "", id, "", "", TRUE)
  /\ UNCHANGED <<clock, max_concurrent, handles, hlock, running, permits,
                 inflight, lpc, sig, since, now, todo, newh, denied, spc, rereg,
                 tlock, store, client, front>>

\* ------------------------------------------------------------------ clock

Advance ==
  /\ clock < MaxTime
  /\ clock' = clock + 1
  /\ ev' = Event("advance", "", "", "", "", TRUE)
  /\ UNCHANGED <<max_concurrent, tasks, handles, hlock, running, permits,
                 inflight, lpc, sig, since, now, todo, newh, denied, spc, rereg,
                 tlock, store, client, front>>

\* Time passes over the store.
Pass ==
  /\ clock < MaxStoreTime
  /\ clock' = clock + 1
  /\ UNCHANGED <<scheduler, store, client, front>>

\* ------------------------------------------------------ start() and tick()

\* A wrong start: the running flag is not looked at.
StartUnguarded(l) ==
  /\ lpc[l] = "idle"
  /\ running' = TRUE
  /\ lpc' = [lpc EXCEPT ![l] = "subscribe"]
  /\ ev' = Event("start", l, "", "", "", TRUE)
  /\ UNCHANGED <<clock, max_concurrent, tasks, handles, hlock, permits,
                 inflight, sig, since, now, todo, newh, denied, spc, rereg,
                 tlock, store, client, front>>

\* start() up to the subscription: fails when the scheduler already runs.
Start(l) ==
  /\ lpc[l] = "idle"
  /\ IF running
     THEN /\ ev' = Event("start", l, "", "", "", FALSE)
          /\ UNCHANGED <<running, lpc>>
     ELSE /\ running' = TRUE
          /\ lpc' = [lpc EXCEPT ![l] = "subscribe"]
          /\ ev' = Event("start", l, "", "", "", TRUE)
  /\ UNCHANGED <<clock, max_concurrent, tasks, handles, hlock, permits,
                 inflight, sig, since, now, todo, newh, denied, spc, rereg,
                 tlock, store, client, front>>

\* shutdown_tx.subscribe(), and the first select! with its fresh sleep.
Subscribe(l) ==
  /\ lpc[l] = "subscribe"
  /\ lpc' = [lpc EXCEPT ![l] = "select"]
  /\ sig' = [sig EXCEPT ![l] = FALSE]
  /\ since' = [since EXCEPT ![l] = clock]
  /\ ev' = Event("subscribe", l, "", "", "", TRUE)
  /\ UNCHANGED <<clock, max_concurrent, tasks, handles, hlock, running,
                 permits, inflight, now, todo, newh, denied, spc, rereg,
                 tlock, store, client, front>>

\* The receivers a message sent now reaches.
Subscribed(l) == lpc[l] \in {"select", "scan", "dispatch"}

\* select! takes the recv branch: the loop breaks and start() returns Ok.
LoopRecv(l) ==
  /\ lpc[l] = "select"
  /\ sig[l]
  /\ lpc' = [lpc EXCEPT ![l] = "idle"]
  /\ sig' = [sig EXCEPT ![l] = FALSE]
  /\ since' = [since EXCEPT ![l] = NoTime]
  /\ ev' = Event("loopExit", l, "", "", "", TRUE)
  /\ UNCHANGED <<clock, max_concurrent, tasks, handles, hlock, running,
                 permits, inflight, now, todo, newh, denied, spc, rereg,
                 tlock, store, client, front>>

\* select! takes the sleep branch once the sleep has elapsed; tick() reads
\* the clock into `now`.
TickBegin(l) ==
  /\ lpc[l] = "select"
  /\ clock >= since[l] + TickInterval
  /\ lpc' = [lpc EXCEPT ![l] = "scan"]
  /\ now' = [now EXCEPT ![l] = clock]
  /\ since' = [since EXCEPT ![l] = NoTime]
  /\ ev' = Event("tick", l, "", "", "", TRUE)
  /\ UNCHANGED <<clock, max_concurrent, tasks, handles, hlock, running,
                 permits, inflight, sig, todo, newh, denied, spc, rereg,
                 tlock, store, client, front>>

\* The due test of the scan.
IsDue(task, n) == task.next_run <= n

\* A wrong firing: next_run is left where it was.
FireStale(task, n, clk) == [task EXCEPT !.last_run = n]

\* What the scan does to a due task: last_run is the tick's now; next_run
\* is what upcoming() returns when the scan runs, if it returns a time.
Fire(task, n, clk) ==
  LET next == Upcoming(task.schedule, clk)
  IN  [task EXCEPT !.last_run = n,
                   !.next_run = IF next # NoTime THEN next ELSE @]

\* The orders in which a HashMap may iterate over S.
Orders(S) ==
  {q \in [1..Cardinality(S) -> S] :
     \A i, j \in 1..Cardinality(S) : q[i] = q[j] => i = j}

\* A wrong scan: the guard of the tasks lock lives on to the end of the
\* tick.
AfterScanHolding(l) == l

\* The holder of the tasks lock after the scan of loop l: the guard is
\* dropped at the end of the block of the scan.
AfterScan(l) == "free"

\* The scan under the tasks write lock.
TickScan(l) ==
  /\ lpc[l] = "scan"
  /\ tlock = "free"
  /\ tlock' = AfterScan(l)
  /\ LET due == {t \in tasks : IsDue(t, now[l])} IN
       /\ tasks' = {IF IsDue(t, now[l]) THEN Fire(t, now[l], clock) ELSE t :
                      t \in tasks}
       /\ \E q \in Orders({[id |-> t.id, ex |-> t.executor] : t \in due}) :
            todo' = [todo EXCEPT ![l] = q]
  /\ lpc' = [lpc EXCEPT ![l] = "dispatch"]
  /\ ev' = Event("scan", l, "", "", "", TRUE)
  /\ UNCHANGED <<clock, max_concurrent, handles, hlock, running, permits,
                 inflight, sig, since, now, newh, denied, spc, rereg,
                 store, client, front>>

\* A wrong acquire: it never fails.
TryAcquireAlways(p) == TRUE

\* semaphore.try_acquire_owned() succeeds when a permit is free.
TryAcquire(p) == p > 0

\* The execution tokio::spawn starts for the head of tasks_to_run.
Execution(l) ==
  [id |-> Head(todo[l]).id, ex |-> Head(todo[l]).ex, by |-> l, at |-> now[l]]

\* A wrong skip: the task is kept for a later try within the tick.
SkipQueued(l) ==
  /\ todo' = [todo EXCEPT ![l] = Append(Tail(@), Head(@))]
  /\ denied' = [denied EXCEPT ![l] = @ \cup {Head(todo[l]).id}]
  /\ UNCHANGED <<permits, inflight, newh>>

\* No permit: `continue`.
Skip(l) ==
  /\ todo' = [todo EXCEPT ![l] = Tail(@)]
  /\ denied' = [denied EXCEPT ![l] = @ \cup {Head(todo[l]).id}]
  /\ UNCHANGED <<permits, inflight, newh>>

\* A permit: the execution is spawned with it and its handle is kept.
Spawn(l) ==
  /\ permits' = permits - 1
  /\ inflight' = inflight \cup {Execution(l)}
  /\ newh' = [newh EXCEPT ![l] = @ \cup {Execution(l)}]
  /\ todo' = [todo EXCEPT ![l] = Tail(@)]
  /\ UNCHANGED denied

\* One iteration of the dispatch loop.
TickDispatch(l) ==
  /\ lpc[l] = "dispatch"
  /\ todo[l] # <<>>
  /\ IF TryAcquire(permits)
     THEN /\ Spawn(l)
          /\ ev' = Event("spawn", l, Head(todo[l]).id, "", Head(todo[l]).ex, TRUE)
     ELSE /\ Skip(l)
          /\ ev' = Event("skip", l, Head(todo[l]).id, "", Head(todo[l]).ex, FALSE)
  /\ UNCHANGED <<clock, max_concurrent, tasks, handles, hlock, running, lpc,
                 sig, since, now, spc, rereg,
                 tlock, store, client, front>>

\* The end of tick(): the new handles are stored under the handles write
\* lock, if there are any, and the loop selects again with a fresh sleep.
TickEnd(l) ==
  /\ lpc[l] = "dispatch"
  /\ todo[l] = <<>>
  /\ IF newh[l] = {}
     THEN UNCHANGED handles
     ELSE /\ hlock = "free"
          /\ handles' = handles \cup (newh[l] \cap inflight)
  /\ lpc' = [lpc EXCEPT ![l] = "select"]
  /\ since' = [since EXCEPT ![l] = clock]
  /\ now' = [now EXCEPT ![l] = NoTime]
  /\ newh' = [newh EXCEPT ![l] = {}]
  /\ denied' = [denied EXCEPT ![l] = {}]
  /\ ev' = Event("tickEnd", l, "", "", "", TRUE)
  /\ UNCHANGED <<clock, max_concurrent, tasks, hlock, running, permits,
                 inflight, sig, todo, spc, rereg,
                 tlock, store, client, front>>

\* ------------------------------------------------------------- executions

\* A wrong failure path: a task whose execution failed is unregistered.
OnOutcomeDropFailed(ts, id, ok) == IF ok THEN ts ELSE Remove(ts, id)

\* What the spawned future does to the registry with the result of
\* execute(): an Err is logged, and that is all.
OnOutcome(ts, id, ok) == ts

\* A wrong end: the permit of an execution that returned Err is kept.
FinishKeepingOnErr(e, ok) ==
  /\ e \in inflight
  /\ inflight' = inflight \ {e}
  /\ permits' = IF ok THEN permits + 1 ELSE permits
  /\ handles' = handles \ {e}
  /\ tasks' = OnOutcome(tasks, e.id, ok)
  /\ ev' = Event("finish", e.by, e.id, "", e.ex, ok)
  /\ rereg' = rereg \ {e}
  /\ UNCHANGED <<clock, max_concurrent, hlock, running, lpc, sig, since, now,
                 todo, newh, denied, spc,
                 tlock, store, client, front>>

\* An execution ends with Ok or Err; its permit is dropped with it.
Finish(e, ok) ==
  /\ e \in inflight
  /\ inflight' = inflight \ {e}
  /\ permits' = permits + 1
  /\ handles' = handles \ {e}
  /\ tasks' = OnOutcome(tasks, e.id, ok)
  /\ ev' = Event("finish", e.by, e.id, "", e.ex, ok)
  /\ rereg' = rereg \ {e}
  /\ UNCHANGED <<clock, max_concurrent, hlock, running, lpc, sig, since, now,
                 todo, newh, denied, spc,
                 tlock, store, client, front>>

\* ----------------------------------------------------------------- stop()

\* shutdown_tx.send(()): every subscribed receiver gets the message.
StopSend(s) ==
  /\ spc[s] = "idle"
  /\ sig' = [l \in Loops |-> IF Subscribed(l) THEN TRUE ELSE sig[l]]
  /\ spc' = [spc EXCEPT ![s] = "sent"]
  /\ ev' = Event("stopSend", s, "", "", "", TRUE)
  /\ UNCHANGED <<clock, max_concurrent, tasks, handles, hlock, running,
                 permits, inflight, lpc, since, now, todo, newh, denied, rereg,
                 tlock, store, client, front>>

\* Under the running write lock: return Ok at once when the scheduler is
\* not running, else clear the flag.
StopCheck(s) ==
  /\ spc[s] = "sent"
  /\ IF ~running
     THEN /\ spc' = [spc EXCEPT ![s] = "idle"]
          /\ ev' = Event("stopReturn", s, "", "", "", TRUE)
          /\ UNCHANGED running
     ELSE /\ running' = FALSE
          /\ spc' = [spc EXCEPT ![s] = "lock"]
          /\ ev' = Event("stopping", s, "", "", "", TRUE)
  /\ UNCHANGED <<clock, max_concurrent, tasks, handles, hlock, permits,
                 inflight, lpc, sig, since, now, todo, newh, denied, rereg,
                 tlock, store, client, front>>

\* handles.write().await
StopLock(s) ==
  /\ spc[s] = "lock"
  /\ hlock = "free"
  /\ hlock' = s
  /\ spc' = [spc EXCEPT ![s] = "drain"]
  /\ ev' = Event("stopLock", s, "", "", "", TRUE)
  /\ UNCHANGED <<clock, max_concurrent, tasks, handles, running, permits,
                 inflight, lpc, sig, since, now, todo, newh, denied, rereg,
                 tlock, store, client, front>>

\* The drain loop has awaited every stored handle: stop() returns Ok and
\* the lock guard is dropped.
StopDrained(s) ==
  /\ spc[s] = "drain"
  /\ handles = {}
  /\ handles' = {}
  /\ hlock' = "free"
  /\ spc' = [spc EXCEPT ![s] = "idle"]
  /\ ev' = Event("stopReturn", s, "", "", "", TRUE)
  /\ UNCHANGED <<clock, max_concurrent, tasks, running, permits, inflight,
                 lpc, sig, since, now, todo, newh, denied, rereg,
                 tlock, store, client, front>>

\* ------------------------------------------------------------- the parser

\* DateTime::to_rfc3339 of a second of the model's first ten, and the empty
\* string of unwrap_or_default for None.
Rfc3339(t) ==
  IF t = NoTime THEN "" ELSE "1970-01-01T00:00:0" \o ToString(t) \o "+00:00"

\* The hex digest of Sha256 over the bytes of a string, taken to be free of
\* collisions.
Sha256(str) == "sha256(" \o str \o ")"

\* The id FeedParser::parse gives an entry without a native id.
Fingerprint(url, title, published) ==
  Sha256(url \o "|" \o title \o "|" \o Rfc3339(published))

\* The id of the FeedEntry made of an item.
EntryId(item) ==
  IF item.id = ""
  THEN Fingerprint(item.link, item.title, item.published)
  ELSE item.id

\* The FeedEntry made of an item.  Of its fields the model keeps the id,
\* title, url, published and summary; author, updated, content_html,
\* content_text and categories go the way of summary.
ParseEntry(item) ==
  [id |-> EntryId(item), title |-> item.title, url |-> item.link,
   published |-> item.published, summary |-> item.summary]

\* FeedParser::parse on the entries of a document, in their order.
ParseEntries(items) == [i \in 1..Len(items) |-> ParseEntry(items[i])]

\* FeedFetcher::fetch: Err with the message of the failure, or Ok with the
\* metadata and the parsed entries.
Fetch(res) ==
  [ok |-> res.err = None, err |-> res.err, metadata |-> res.meta,
   entries |-> ParseEntries(res.items)]

\* -------------------------------------------------------------- the store

\* The row of a feed id, and the row of an entry id.
FeedRow(fs, id) == {f \in fs : f.id = id}
EntryRow(es, id) == {e \in es : e.id = id}

\* The entries a feed owns.
EntriesOf(es, feed_id) == {e \in es : e.feed_id = feed_id}

\* Feed::default() at second t.  Of the two timestamps of a row the model
\* keeps updated_at; created_at is written once, by the insert.
DefaultFeed(t) ==
  [id |-> "", url |-> "", title |-> "", description |-> None,
   site_url |-> None, last_fetched |-> NoTime,
   last_successful_fetch |-> NoTime, last_error |-> None, entry_count |-> 0,
   enabled |-> TRUE, updated_at |-> t]

\* Entry::default() at second t.
DefaultEntry(t) ==
  [id |-> "", feed_id |-> "", title |-> "", url |-> "", published |-> NoTime,
   summary |-> None, read |-> FALSE, updated_at |-> t]

\* upsert_feed at second t: the row is inserted as given, or on a conflict
\* of the id every column is taken from the given row and updated_at is
\* CURRENT_TIMESTAMP.
UpsertFeed(fs, feed, t) ==
  IF FeedRow(fs, feed.id) = {}
  THEN fs \cup {feed}
  ELSE {f \in fs : f.id # feed.id} \cup {[feed EXCEPT !.updated_at = t]}

\* A wrong delete: the statement has no WHERE.
DeleteFeedAll(fs, id) == {}

\* delete_feed: the row goes, and its entries with it by the foreign key.
DeleteFeed(fs, id) == {f \in fs : f.id # id}
Cascade(es, id) == {e \in es : e.feed_id # id}

\* A wrong upsert: an insert that takes no notice of a conflict.
UpsertEntryAppending(es, entry, t) == es \cup {entry}

\* A wrong upsert: on a conflict the read flag is taken from the given
\* row like every other column.
UpsertEntryClearing(es, entry, t) ==
  IF EntryRow(es, entry.id) = {}
  THEN es \cup {entry}
  ELSE {e \in es : e.id # entry.id} \cup {[entry EXCEPT !.updated_at = t]}

\* upsert_entry at second t: the row is inserted as given, or on a conflict
\* of the id every column but read is taken from the given row and
\* updated_at is CURRENT_TIMESTAMP.
UpsertEntry(es, entry, t) ==
  IF EntryRow(es, entry.id) = {}
  THEN es \cup {entry}
  ELSE {IF e.id = entry.id
        THEN [entry EXCEPT !.read = e.read, !.updated_at = t]
        ELSE e : e \in es}

\* A wrong update: the statement has no WHERE.
SetReadAll(es, id, read, t) ==
  {[e EXCEPT !.read = read, !.updated_at = t] : e \in es}

\* mark_read and mark_unread at second t.
SetRead(es, id, read, t) ==
  {IF e.id = id THEN [e EXCEPT !.read = read, !.updated_at = t] ELSE e :
     e \in es}

\* ------------------------------------------------------------- the engine

\* The row update_feed builds of a FeedEntry at second t.
DbEntry(entry, feed_id, t) ==
  [DefaultEntry(t) EXCEPT !.id = entry.id, !.feed_id = feed_id,
                          !.title = entry.title, !.url = entry.url,
                          !.published = entry.published,
                          !.summary = entry.summary]

\* The loop of update_feed over the fetched entries.
RECURSIVE UpsertEntries(_, _, _, _)
UpsertEntries(es, fetched, feed_id, t) ==
  IF fetched = <<>> THEN es
  ELSE UpsertEntries(UpsertEntry(es, DbEntry(Head(fetched), feed_id, t), t),
                     Tail(fetched), feed_id, t)

\* A wrong success path: the error of an earlier fetch is left in the row.
UpdatedFeedKeepingError(feed, metadata, fetched, t) ==
  [feed EXCEPT !.title = metadata.title,
               !.description = metadata.description,
               !.site_url = metadata.site_url,
               !.last_fetched = t,
               !.last_successful_fetch = t,
               !.entry_count = Len(fetched)]

\* The row update_feed writes after a fetch that returned Ok.
UpdatedFeed(feed, metadata, fetched, t) ==
  [feed EXCEPT !.title = metadata.title,
               !.description = metadata.description,
               !.site_url = metadata.site_url,
               !.last_fetched = t,
               !.last_successful_fetch = t,
               !.last_error = None,
               !.entry_count = Len(fetched)]

\* A wrong failure path: the snapshot of the last success is cleared.
FailedFeedClearing(feed, err, t) ==
  [feed EXCEPT !.last_fetched = t, !.last_error = err,
               !.last_successful_fetch = NoTime, !.entry_count = 0]

\* The row update_feed writes after a fetch that returned Err.
FailedFeed(feed, err, t) ==
  [feed EXCEPT !.last_fetched = t, !.last_error = err]

\* The result of a call of update_feed.
Outcome(fs, es, ok, fetched) ==
  [feeds |-> fs, entries |-> es, ok |-> ok, fetched |-> fetched]

\* A wrong update_feed: a feed that is not found is fetched and created.
UpdateFeedCreating(fs, es, id, res, t) ==
  LET got == Fetch(res)
      feed == [DefaultFeed(t) EXCEPT !.id = id, !.url = UrlOf(id)]
  IN
  IF got.ok
  THEN Outcome(UpsertFeed(fs, UpdatedFeed(feed, got.metadata, got.entries, t), t),
               UpsertEntries(es, got.entries, id, t), TRUE, TRUE)
  ELSE Outcome(UpsertFeed(fs, FailedFeed(feed, got.err, t), t), es, FALSE, TRUE)

\* update_feed(id) at second t, when the fetcher meets res: the store it
\* leaves, whether it returns Ok and whether it has called the fetcher.
UpdateFeedOutcome(fs, es, id, res, t) ==
  IF FeedRow(fs, id) = {} THEN Outcome(fs, es, FALSE, FALSE)
  ELSE
    LET feed == CHOOSE f \in FeedRow(fs, id) : TRUE
        got == Fetch(res)
    IN  IF got.ok
        THEN Outcome(
               UpsertFeed(fs, UpdatedFeed(feed, got.metadata, got.entries, t), t),
               UpsertEntries(es, got.entries, id, t), TRUE, TRUE)
        ELSE Outcome(UpsertFeed(fs, FailedFeed(feed, got.err, t), t), es,
                     FALSE, TRUE)

UpdateFeed(id, res) ==
  \E out \in {UpdateFeedOutcome(feeds, entries, id, res, clock)} :
    /\ feeds' = out.feeds
    /\ entries' = out.entries
    /\ call' = [Call("update_feed", id, out.ok, out.fetched,
                     IF out.fetched THEN res ELSE NoResponse)
                  EXCEPT !.repeat = /\ call.op = "update_feed" /\ call.id = id
                                    /\ call.ok /\ out.ok /\ call.res = res]
    /\ UNCHANGED <<clock, scheduler, client, front>>

\* commands::add_feed(url, name) at a url that serves res, with a name that
\* slugify leaves as it is: nothing is written unless the fetch returns Ok.
AddFeed(name, res) ==
  LET got == Fetch(res)
      feed == [DefaultFeed(clock) EXCEPT !.id = name, !.url = UrlOf(name),
                 !.title = name,
                 !.description = got.metadata.description,
                 !.site_url = got.metadata.site_url]
  IN  /\ feeds' = IF got.ok THEN UpsertFeed(feeds, feed, clock) ELSE feeds
      /\ call' = Call("add_feed", name, got.ok, TRUE, res)
      /\ UNCHANGED <<entries, clock, scheduler, client, front>>

\* commands::remove_feed(id).
RemoveFeed(id) ==
  /\ feeds' = DeleteFeed(feeds, id)
  /\ entries' = Cascade(entries, id)
  /\ call' = [Call("remove_feed", id, TRUE, FALSE, NoResponse)
                EXCEPT !.gone = Cardinality(EntriesOf(entries, id))]
  /\ UNCHANGED <<clock, scheduler, client, front>>

\* Database::mark_read(entry_id) and mark_unread(entry_id).
MarkRead(entry_id) ==
  /\ entries' = SetRead(entries, entry_id, TRUE, clock)
  /\ call' = Call("mark_read", entry_id, TRUE, FALSE, NoResponse)
  /\ UNCHANGED <<feeds, clock, scheduler, client, front>>

MarkUnread(entry_id) ==
  /\ entries' = SetRead(entries, entry_id, FALSE, clock)
  /\ call' = Call("mark_unread", entry_id, TRUE, FALSE, NoResponse)
  /\ UNCHANGED <<feeds, clock, scheduler, client, front>>

\* LIMIT n of a query over rows: a negative n is no limit.
Limited(rows, n) == IF n < 0 \/ n > Cardinality(rows) THEN Cardinality(rows) ELSE n

\* The first n of rows by ORDER BY published DESC, rows of one time in
\* either order.
ByPublished(rows, n) ==
  {q \in UNION {Orders(S) : S \in SUBSET rows} :
     /\ Len(q) = Limited(rows, n)
     /\ \A i, j \in 1..Len(q) : i < j => q[i].published >= q[j].published
     /\ \A e \in rows : (\A i \in 1..Len(q) : q[i] # e) =>
          \A i \in 1..Len(q) : q[i].published >= e.published}

\* get_unread_entries(limit).
GetUnreadEntries(limit) ==
  \E q \in ByPublished({e \in entries : ~e.read}, limit) :
    /\ call' = [Call("get_unread_entries", "", TRUE, FALSE, NoResponse)
                  EXCEPT !.limit = limit, !.rows = q]
    /\ UNCHANGED <<feeds, entries, clock, scheduler, client, front>>

\* The place of a title in ORDER BY title COLLATE NOCASE.
TitleRank(title) ==
  CASE title = "f1" -> 1
    [] title = "f2" -> 2
    [] title = "News" -> 3
    [] title = "Tech" -> 4
    [] OTHER -> 0

\* get_all_feeds: the rows by title, rows of one title in either order.
GetAllFeeds(fs) ==
  {q \in Orders(fs) :
     \A i, j \in 1..Cardinality(fs) :
       i < j => TitleRank(q[i].title) <= TitleRank(q[j].title)}

\* A wrong batch: the first failure ends the loop.
RECURSIVE UpdateEachAborting(_, _, _, _, _)
UpdateEachAborting(fs, es, list, batch, t) ==
  IF list = <<>> THEN Outcome(fs, es, TRUE, TRUE)
  ELSE LET feed == Head(list)
           out == UpdateFeedOutcome(fs, es, feed.id, batch[feed.id], t)
       IN  IF feed.enabled /\ ~out.ok
           THEN Outcome(out.feeds, out.entries, FALSE, TRUE)
           ELSE UpdateEachAborting(out.feeds, out.entries, Tail(list), batch, t)

\* The loop of update_all_feeds over the rows it has read: update_feed on
\* every enabled one, whose Err is logged.
RECURSIVE UpdateEach(_, _, _, _, _)
UpdateEach(fs, es, list, batch, t) ==
  IF list = <<>> THEN Outcome(fs, es, TRUE, TRUE)
  ELSE LET feed == Head(list)
           out == IF feed.enabled
                  THEN UpdateFeedOutcome(fs, es, feed.id, batch[feed.id], t)
                  ELSE Outcome(fs, es, TRUE, FALSE)
       IN  UpdateEach(out.feeds, out.entries, Tail(list), batch, t)

\* update_all_feeds() when the fetcher meets batch[id] at the url of id.
UpdateAllFeeds(batch) ==
  \E list \in GetAllFeeds(feeds) :
    \E out \in {UpdateEach(feeds, entries, list, batch, clock)} :
      /\ feeds' = out.feeds
      /\ entries' = out.entries
      /\ call' = [Call("update_all_feeds", "", out.ok, TRUE, NoResponse)
                    EXCEPT !.batch = batch]
      /\ UNCHANGED <<clock, scheduler, client, front>>

\* Database::upsert_feed of the row of id with its enabled flag set: the
\* one way a feed comes to be disabled.
SetEnabled(id, enabled) ==
  \E f \in FeedRow(feeds, id) :
    /\ feeds' = UpsertFeed(feeds, [f EXCEPT !.enabled = enabled], clock)
    /\ call' = Call("upsert_feed", id, TRUE, FALSE, NoResponse)
    /\ UNCHANGED <<entries, clock, scheduler, client, front>>

\* update_feed(feed_id) by caller u up to its fetch: the row is read, and
\* a feed that is not found is the Err the call returns.
LoadFeed(u, feed_id) ==
  /\ upd[u] = {}
  /\ IF FeedRow(feeds, feed_id) = {}
     THEN /\ call' = Call("update_feed", feed_id, FALSE, FALSE, NoResponse)
          /\ UNCHANGED upd
     ELSE /\ upd' = [upd EXCEPT ![u] = FeedRow(feeds, feed_id)]
          /\ UNCHANGED call
  /\ UNCHANGED <<feeds, entries, app, clock, scheduler, client>>

\* update_feed by caller u from the return of its fetch, which met res:
\* the row it writes is built of the row it had read.
WriteFeed(u, res) ==
  \E feed \in upd[u] :
    LET got == Fetch(res) IN
    /\ feeds' = UpsertFeed(feeds,
                           IF got.ok
                           THEN UpdatedFeed(feed, got.metadata, got.entries,
                                            clock)
                           ELSE FailedFeed(feed, got.err, clock),
                           clock)
    /\ entries' = IF got.ok
                  THEN UpsertEntries(entries, got.entries, feed.id, clock)
                  ELSE entries
    /\ upd' = [upd EXCEPT ![u] = {}]
    /\ call' = Call("update_feed", feed.id, got.ok, TRUE, res)
    /\ UNCHANGED <<app, clock, scheduler, client>>

\* ------------------------------------------------ the terminal interface

\* The keys the model presses: q and the keys that scroll the reader or
\* open the browser are left out.
Keys == {"k", "j", "Enter", "Esc", "r", "u", "n", "m"}

\* get_entries_for_feed(feed_id, limit).
GetEntriesForFeed(es, feed_id, limit) ==
  ByPublished(EntriesOf(es, feed_id), limit)

\* What a key leaves: the App, and the tables of the store.
Left(a, fs, es) == [app |-> a, feeds |-> fs, entries |-> es]

\* App::new.
NewApp ==
  /\ app.page = "Closed"
  /\ \E q \in GetAllFeeds(feeds) :
       app' = [Closed EXCEPT !.page = "Feeds", !.feeds = q,
                             !.feed_state = IF Len(q) = 0 THEN 0 ELSE 1]
  /\ UNCHANGED <<upd, clock, scheduler, store, client>>

\* load_entries: the Apps it can leave, one for each order of the rows.
LoadEntries(a, es) ==
  IF a.feed_state = 0 \/ a.feed_state > Len(a.feeds) THEN {a}
  ELSE {[a EXCEPT !.entries = q,
                  !.entry_state = IF Len(q) = 0 THEN 0 ELSE 1] :
          q \in GetEntriesForFeed(es, a.feeds[a.feed_state].id, 100)}

\* Up and Down in a list of len rows with the place i selected.
SelectUp(i, len) ==
  IF len = 0 THEN i
  ELSE IF i = 0 \/ i = 1 THEN len ELSE i - 1
SelectDown(i, len) ==
  IF len = 0 THEN i
  ELSE LET at == IF i = 0 THEN 1 ELSE i
       IN  IF at >= len THEN 1 ELSE at + 1

\* mark_entry_as_read(entry_id) at second t.
MarkEntryAsRead(a, fs, es, entry_id, t) ==
  Left([a EXCEPT
          !.current_entry =
            {IF e.id = entry_id THEN [e EXCEPT !.read = TRUE] ELSE e :
               e \in a.current_entry},
          !.entries =
            [i \in 1..Len(a.entries) |->
               IF a.entries[i].id = entry_id
               THEN [a.entries[i] EXCEPT !.read = TRUE]
               ELSE a.entries[i]]],
       fs, SetRead(es, entry_id, TRUE, t))

\* load_entry_by_id(entry_id) at second t: the entry that becomes the
\* current one is the row as get_entry returned it.
LoadEntryById(a, fs, es, entry_id, t) ==
  IF EntryRow(es, entry_id) = {} THEN Left(a, fs, es)
  ELSE LET entry == CHOOSE e \in EntryRow(es, entry_id) : TRUE
           marked == IF ~entry.read
                     THEN MarkEntryAsRead(a, fs, es, entry_id, t)
                     ELSE Left(a, fs, es)
       IN  Left([marked.app EXCEPT !.current_entry = {entry}],
                fs, marked.entries)

\* load_next_unread_in_feed at second t.
LoadNextUnreadInFeed(a, fs, es, t) ==
  LET at == {i \in 1..Len(a.entries) :
               \E e \in a.current_entry : a.entries[i].id = e.id}
      next == {j \in 1..Len(a.entries) :
                 (\E i \in at : i < j) /\ ~a.entries[j].read}
  IN  IF next = {} THEN Left(a, fs, es)
      ELSE LoadEntryById(
             a, fs, es,
             a.entries[CHOOSE j \in next : \A k \in next : j <= k].id, t)

\* load_random_unread at second t: what it can leave, for each unread row
\* it can pick and each order of the rows of that row's feed.
LoadRandomUnread(a, fs, es, t) ==
  IF {e \in es : ~e.read} = {} THEN {Left(a, fs, es)}
  ELSE UNION
         {IF FeedRow(fs, entry.feed_id) = {} THEN {Left(a, fs, es)}
          ELSE {LoadEntryById([a EXCEPT !.entries = q], fs, es, entry.id, t) :
                  q \in GetEntriesForFeed(es, entry.feed_id, 100)} :
            entry \in {e \in es : ~e.read}}

\* refresh_current_feed at second t, when the fetcher meets res: the Err of
\* update_feed is the Err of run(), which ends the App.
RefreshCurrentFeed(a, fs, es, res, t) ==
  IF a.feed_state = 0 \/ a.feed_state > Len(a.feeds) THEN {Left(a, fs, es)}
  ELSE LET out == UpdateFeedOutcome(fs, es, a.feeds[a.feed_state].id, res, t)
       IN  IF ~out.ok THEN {Left(Closed, out.feeds, out.entries)}
           ELSE UNION
                  {{Left(b, out.feeds, out.entries) :
                      b \in IF a.page = "Entries"
                            THEN LoadEntries([a EXCEPT !.feeds = q],
                                             out.entries)
                            ELSE {[a EXCEPT !.feeds = q]}} :
                     q \in GetAllFeeds(out.feeds)}

\* handle_feeds_key.
HandleFeedsKey(a, fs, es, key, res, t) ==
  CASE key = "k" ->
         {Left([a EXCEPT !.feed_state = SelectUp(@, Len(a.feeds))], fs, es)}
    [] key = "j" ->
         {Left([a EXCEPT !.feed_state = SelectDown(@, Len(a.feeds))], fs, es)}
    [] key = "Enter" ->
         IF a.feed_state = 0 \/ a.feed_state > Len(a.feeds)
         THEN {Left(a, fs, es)}
         ELSE {Left([b EXCEPT !.page = "Entries"], fs, es) :
                 b \in LoadEntries(a, es)}
    [] key = "r" -> RefreshCurrentFeed(a, fs, es, res, t)
    [] OTHER -> {Left(a, fs, es)}

\* handle_entries_key.
HandleEntriesKey(a, fs, es, key, res, t) ==
  CASE key = "Esc" ->
         {Left([a EXCEPT !.page = "Feeds", !.entries = <<>>], fs, es)}
    [] key = "k" ->
         {Left([a EXCEPT !.entry_state = SelectUp(@, Len(a.entries))],
               fs, es)}
    [] key = "j" ->
         {Left([a EXCEPT !.entry_state = SelectDown(@, Len(a.entries))],
               fs, es)}
    [] key = "Enter" ->
         IF a.entry_state = 0 \/ a.entry_state > Len(a.entries)
         THEN {Left(a, fs, es)}
         ELSE LET entry == a.entries[a.entry_state]
                  marked == IF ~entry.read
                            THEN MarkEntryAsRead(a, fs, es, entry.id, t)
                            ELSE Left(a, fs, es)
              IN  {Left([marked.app EXCEPT
                           !.current_entry =
                             {marked.app.entries[a.entry_state]},
                           !.page = "Reader"],
                        fs, marked.entries)}
    [] key = "r" -> RefreshCurrentFeed(a, fs, es, res, t)
    [] OTHER -> {Left(a, fs, es)}

\* handle_reader_key at second t.
HandleReaderKey(a, fs, es, key, t) ==
  CASE key = "Esc" ->
         {Left([a EXCEPT !.page = "Entries", !.current_entry = {}], fs, es)}
    [] key = "u" ->
         IF a.current_entry = {} THEN {Left(a, fs, es)}
         ELSE
         {Left([a EXCEPT
                  !.current_entry = {[entry EXCEPT !.read = ~entry.read]},
                  !.entries =
                    [i \in 1..Len(a.entries) |->
                       IF a.entries[i].id = entry.id
                       THEN [a.entries[i] EXCEPT !.read = ~entry.read]
                       ELSE a.entries[i]]],
               fs, SetRead(es, entry.id, ~entry.read, t)) :
            entry \in a.current_entry}
    [] key = "r" ->
         {IF \E e \in a.current_entry : ~e.read
          THEN MarkEntryAsRead(a, fs, es,
                               (CHOOSE e \in a.current_entry : TRUE).id, t)
          ELSE Left(a, fs, es)}
    [] key = "n" ->
         {LoadNextUnreadInFeed(a, fs, es, t)}
    [] key = "m" -> LoadRandomUnread(a, fs, es, t)
    [] OTHER -> {Left(a, fs, es)}

\* handle_key(key), when the fetcher meets res at a refresh.
HandleKey(key, res) ==
  /\ app.page # "Closed"
  /\ \E out \in CASE app.page = "Feeds" ->
                       HandleFeedsKey(app, feeds, entries, key, res, clock)
                  [] app.page = "Entries" ->
                       HandleEntriesKey(app, feeds, entries, key, res, clock)
                  [] app.page = "Reader" ->
                       HandleReaderKey(app, feeds, entries, key, clock) :
       /\ app' = out.app
       /\ feeds' = out.feeds
       /\ entries' = out.entries
  /\ UNCHANGED <<call, upd, clock, scheduler, client>>

\* ------------------------------------------------ AiClient::summarize

\* A wrong key: the model is left out of the hash.
CacheKeyWithoutModel(cfg, content) == Sha256(content \o cfg.system_prompt)

\* cache_key: the digest of the content, the system prompt and the model,
\* fed to the hasher one after the other.
CacheKey(cfg, content) ==
  Sha256(content \o cfg.system_prompt \o cfg.model)

\* HashMap::get: the texts under a key, one at most.
CacheGet(ch, key) == {e.text : e \in {d \in ch : d.key = key}}

\* A wrong insert: the result is not stored.
CacheInsertNothing(ch, key, text) == ch

\* HashMap::insert: the text under the key is replaced.
CacheInsert(ch, key, text) ==
  {e \in ch : e.key # key} \cup {[key |-> key, text |-> text]}

\* A wrong failure path: the message of the error is cached as a summary.
AfterFailureCaching(ch, key, err) ==
  IF key = None THEN ch ELSE CacheInsert(ch, key, err)

\* The cache after the provider has returned Err: `?` returns at once.
AfterFailure(ch, key, err) == ch

\* A wrong lookup: the read guard lives on to the end of summarize().
AfterLookupHolding(rs, c) == rs \cup {c}

\* The read guards after the lookup of caller c has missed: the guard is
\* dropped at the end of the block of the lookup.
AfterLookup(rs, c) == rs \ {c}

\* summarize() returns to caller c what r holds.
Return(c, r) ==
  /\ sum' = [sum EXCEPT ![c] = r]
  /\ last' = Returned("summarize", config, r)
  /\ before' = last
  /\ readers' = readers \ {c}

\* summarize(content) called by c, up to the provider: with the cache
\* enabled the key is looked up under a read guard, and a hit returns the
\* cached text.
SumLookup(c, content) ==
  /\ sum[c].pc = "idle"
  /\ IF config.enable_cache
     THEN LET key == CacheKey(config, content) IN
          IF CacheGet(cache, key) # {}
          THEN \E text \in CacheGet(cache, key) :
                 Return(c, Caller("idle", content, key, text, TRUE, TRUE, 0))
          ELSE /\ sum' = [sum EXCEPT ![c] =
                            Caller("provider", content, key, None, FALSE, TRUE, 0)]
               /\ readers' = AfterLookup(readers \cup {c}, c)
               /\ UNCHANGED <<last, before>>
     ELSE /\ sum' = [sum EXCEPT ![c] =
                       Caller("provider", content, None, None, FALSE, TRUE, 0)]
          /\ UNCHANGED <<readers, last, before>>
  /\ UNCHANGED <<config, cache, provided, clock, scheduler, store, front>>

\* A wrong return of the provider: the text goes on to the insert with
\* the cache disabled too.
SumProviderCaching(c, out) ==
  /\ sum[c].pc = "provider"
  /\ out \in Provide(config.provider, sum[c].content)
  /\ IF out.ok
     THEN /\ provided' = provided \cup {[content |-> sum[c].content,
                                        text |-> out.text]}
          /\ UNCHANGED cache
          /\ sum' = [sum EXCEPT ![c] =
                       [@ EXCEPT !.pc = "insert", !.text = out.text,
                                 !.invoked = 1]]
          /\ UNCHANGED <<readers, last, before>>
     ELSE /\ cache' = AfterFailure(cache, sum[c].key, out.text)
          /\ Return(c, [sum[c] EXCEPT !.pc = "idle", !.text = out.text,
                                      !.ok = FALSE, !.invoked = 1])
          /\ UNCHANGED provided
  /\ UNCHANGED <<config, clock, scheduler, store, front>>

\* The provider of the configuration returns out to caller c: an Err is
\* returned to the caller; with an Ok the call goes on to the insert, or
\* returns the text when the cache is disabled.
SumProvider(c, out) ==
  /\ sum[c].pc = "provider"
  /\ out \in Provide(config.provider, sum[c].content)
  /\ IF out.ok
     THEN /\ provided' = provided \cup {[content |-> sum[c].content,
                                        text |-> out.text]}
          /\ UNCHANGED cache
          /\ IF config.enable_cache
             THEN /\ sum' = [sum EXCEPT ![c] =
                               [@ EXCEPT !.pc = "insert", !.text = out.text,
                                         !.invoked = 1]]
                  /\ UNCHANGED <<readers, last, before>>
             ELSE Return(c, [sum[c] EXCEPT !.pc = "idle", !.text = out.text,
                                           !.invoked = 1])
     ELSE /\ cache' = AfterFailure(cache, sum[c].key, out.text)
          /\ Return(c, [sum[c] EXCEPT !.pc = "idle", !.text = out.text,
                                      !.ok = FALSE, !.invoked = 1])
          /\ UNCHANGED provided
  /\ UNCHANGED <<config, clock, scheduler, store, front>>

\* The insert of caller c under the write guard, and the return of the
\* Summary with cached = false.
SumInsert(c) ==
  /\ sum[c].pc = "insert"
  /\ readers = {}
  /\ cache' = CacheInsert(cache, sum[c].key, sum[c].text)
  /\ Return(c, [sum[c] EXCEPT !.pc = "idle"])
  /\ UNCHANGED <<config, provided, clock, scheduler, store, front>>

\* clear_cache(), under the write guard.
ClearCache ==
  /\ readers = {}
  /\ cache' = {}
  /\ last' = [last EXCEPT !.op = "clear_cache"]
  /\ UNCHANGED <<config, readers, sum, before, provided, clock, scheduler,
                 store, front>>

\* AiClient::new(cfg): the client that is called from here on, when no
\* call of the client before it is under way.
NewClient(cfg) ==
  /\ \A c \in Summarizers : sum[c].pc = "idle"
  /\ config' = cfg
  /\ cache' = {}
  /\ readers' = {}
  /\ last' = [last EXCEPT !.op = "new"]
  /\ UNCHANGED <<sum, before, provided, clock, scheduler, store, front>>

\* ----------------------------------------------------- FeedUpdateTask

\* A wrong task: execute() logs the feed id and returns Ok.
ExecuteLogging(fs, es, feed_id, res, t) == Outcome(fs, es, TRUE, FALSE)

\* FeedUpdateTask::execute: engine.update_feed(&self.feed_id), whose result
\* is the result of the task.
Execute(fs, es, feed_id, res, t) == UpdateFeedOutcome(fs, es, feed_id, res, t)

\* An execution of a FeedUpdateTask ends: the executor of a task that
\* updates a feed carries the id of the feed; its update_feed meets res at
\* the fetcher, and the spawned future ends with its result.
FeedUpdateTask(e, res) ==
  /\ e \in inflight
  /\ e.ex \in FeedIds
  /\ \E out \in {Execute(feeds, entries, e.ex, res, clock)} :
       /\ feeds' = out.feeds
       /\ entries' = out.entries
       /\ call' = Call("update_feed", e.ex, out.ok, out.fetched,
                       IF out.fetched THEN res ELSE NoResponse)
       /\ tasks' = OnOutcome(tasks, e.id, out.ok)
       /\ ev' = Event("finish", e.by, e.id, "", e.ex, out.ok)
  /\ inflight' = inflight \ {e}
  /\ permits' = permits + 1
  /\ handles' = handles \ {e}
  /\ rereg' = rereg \ {e}
  /\ UNCHANGED <<clock, max_concurrent, hlock, running, lpc, sig, since, now,
                 todo, newh, denied, spc, tlock, client, front>>

\* ---------------------------------------------------------- specification

\* The store after Database::open and migrate, beside a scheduler of
\* ceiling 1 that is never started.
InitStore == Init /\ max_concurrent = 1

\* What the callers of the registry do, with the executors exs to register.
Registry(exs) ==
  \/ \E id \in Ids, expr \in Exprs, ex \in exs : Schedule(id, expr, ex)
  \/ \E id \in Ids : Unschedule(id)

\* start() called by l, up to a shutdown: the subscription and the ticks.
Ticking(l) ==
  \/ Start(l)
  \/ Subscribe(l)
  \/ TickBegin(l)
  \/ TickScan(l)
  \/ TickDispatch(l)
  \/ TickEnd(l)

\* stop() called by s.
Stop(s) ==
  \/ StopSend(s)
  \/ StopCheck(s)
  \/ StopLock(s)
  \/ StopDrained(s)

Executions == \E e \in inflight, ok \in BOOLEAN : Finish(e, ok)

\* The scheduler started once and never stopped, under every call of
\* schedule and unschedule with one executor.
Next ==
  \/ Registry({"x1"})
  \/ Advance
  \/ Ticking("l1")
  \/ Executions

Spec == Init /\ [][Next]_vars

\* The scheduler started and stopped, with one expression and one executor
\* to register.
NextStop ==
  \/ \E id \in Ids : Schedule(id, "* * * * * *", "x1")
  \/ Advance
  \/ Ticking("l1")
  \/ LoopRecv("l1")
  \/ Executions
  \/ Stop("s1")

SpecStop == Init /\ [][NextStop]_vars

\* The scheduler before start(), under every call of schedule and
\* unschedule with either executor.
NextRegistered ==
  \/ Registry(Executors)
  \/ Advance

SpecRegistered == Init /\ [][NextRegistered]_vars

\* The scheduler started by l1 and never stopped, with one expression and
\* one executor to register, and a second caller of start().
NextStart ==
  \/ \E id \in Ids : Schedule(id, "* * * * * *", "x1")
  \/ Advance
  \/ Ticking("l1")
  \/ Start("l2")
  \/ Executions

SpecStart == Init /\ [][NextStart]_vars

\* The metadata of the documents that hold items.
News == {m \in Metas : m.title = "News"}

\* The items of the feed without native ids, and the entry ids they parse
\* to.
PlainItems == {Plain, PlainBody, PlainTitle}
EntryIds == {EntryId(item) : item \in PlainItems}

\* One feed, added, updated and removed by hand while its entries are
\* marked read and unread; the source serves either metadata with an empty
\* document and one of them with the others.
NextIngest ==
  \/ \E res \in Failures \cup Documents(Metas, {}, 0) : AddFeed("f1", res)
  \/ \E res \in Failures \cup Documents(Metas, {}, 0)
                         \cup Documents(News, PlainItems, MaxItems) :
       UpdateFeed("f1", res)
  \/ RemoveFeed("f1")
  \/ \E id \in EntryIds : MarkRead(id) \/ MarkUnread(id)
  \/ Pass

SpecIngest == InitStore /\ [][NextIngest]_vars

\* What the fetcher meets in a batch: a failure, an empty document, or one
\* of two documents of one item.
BatchResponses ==
  {Response("HTTP 503", NoMeta, <<>>)} \cup Documents(News, {Native, Plain}, 1)

\* Two feeds, added by hand and updated in batches.
NextBatch ==
  \/ \E id \in FeedIds, res \in Documents(News, {}, 0) : AddFeed(id, res)
  \/ \E batch \in [FeedIds -> BatchResponses] : UpdateAllFeeds(batch)
  \/ Pass

SpecBatch == InitStore /\ [][NextBatch]_vars

\* What the providers return.
Outcomes == UNION {Provide(p, x) : p \in Providers, x \in Contents}

\* The configurations of the first prompt and model, and the
\* configurations of the first provider with the cache enabled.
Switches ==
  {cfg \in Configs : /\ cfg.model = FirstConfig.model
                     /\ cfg.system_prompt = FirstConfig.system_prompt}
Keyed ==
  {cfg \in Configs : /\ cfg.provider = FirstConfig.provider
                     /\ cfg.enable_cache}

\* One caller of summarize() at a time, on clients of every provider with
\* and without a cache, whose cache is cleared now and then.
NextSummarize ==
  \/ \E content \in Contents : SumLookup("c1", content)
  \/ \E out \in Outcomes : SumProvider("c1", out)
  \/ SumInsert("c1")
  \/ ClearCache
  \/ \E cfg \in Switches : NewClient(cfg)

SpecSummarize == InitStore /\ [][NextSummarize]_vars

\* One caller of summarize() at a time, on clients of every prompt and
\* model.
NextKeyed ==
  \/ \E content \in Contents : SumLookup("c1", content)
  \/ \E out \in Outcomes : SumProvider("c1", out)
  \/ SumInsert("c1")
  \/ \E cfg \in Keyed : NewClient(cfg)

SpecKeyed == InitStore /\ [][NextKeyed]_vars

\* The callers of summarize() side by side on the first client.
NextConcurrent ==
  \E c \in Summarizers :
    \/ \E content \in Contents : SumLookup(c, content)
    \/ \E out \in Outcomes : SumProvider(c, out)
    \/ SumInsert(c)

SpecConcurrent == InitStore /\ [][NextConcurrent]_vars

\* The scheduler started once and never stopped, with one expression and
\* one executor to register, and every call of unschedule.
NextRegistry ==
  \/ \E id \in Ids : Schedule(id, "* * * * * *", "x1")
  \/ \E id \in Ids : Unschedule(id)
  \/ Advance
  \/ Ticking("l1")
  \/ Executions

SpecRegistry == Init /\ [][NextRegistry]_vars

\* The steps of the loop of start() called by l.
Tick(l) ==
  \/ Subscribe(l)
  \/ TickBegin(l)
  \/ TickScan(l)
  \/ TickDispatch(l)
  \/ TickEnd(l)

\* What the fetcher meets when a scheduled task updates the feed.
TaskResponses ==
  {Response("HTTP 503", NoMeta, <<>>)}
    \cup {Response(None, m, p) :
            m \in News, p \in {<<PlainBody>>, <<Plain, PlainBody>>}}

\* The end of an execution of a FeedUpdateTask.
Updates == \E e \in inflight, res \in TaskResponses : FeedUpdateTask(e, res)

\* One feed, added by hand, and the tasks that update it, registered
\* before the scheduler is started; the scheduler is never stopped.
NextScheduled ==
  \/ \E res \in Documents(News, {}, 0) : AddFeed("f1", res)
  \/ (~running /\ \E id \in Ids : Schedule(id, "* * * * * *", "f1"))
  \/ Advance
  \/ Ticking("l1")
  \/ Updates

\* Time passes, a loop that can take a step takes one, and an execution
\* that was spawned runs to its end.
SpecScheduled ==
  /\ InitStore
  /\ [][NextScheduled]_vars
  /\ WF_vars(Advance)
  /\ WF_vars(Tick("l1"))
  /\ WF_vars(Updates)

\* Two feeds, added by hand, disabled and enabled again, and updated in
\* batches.
NextEnabled ==
  \/ \E id \in FeedIds, res \in Documents(News, {}, 0) : AddFeed(id, res)
  \/ \E id \in FeedIds, enabled \in BOOLEAN : SetEnabled(id, enabled)
  \/ \E batch \in [FeedIds -> BatchResponses] : UpdateAllFeeds(batch)
  \/ Pass

SpecEnabled == InitStore /\ [][NextEnabled]_vars

\* The scheduler started by either caller and stopped, again and again,
\* with one task to register.
NextRestart ==
  \/ Schedule("a", "* * * * * *", "x1")
  \/ Advance
  \/ \E l \in Loops : Ticking(l) \/ LoopRecv(l)
  \/ Executions
  \/ Stop("s1")

SpecRestart == InitStore /\ [][NextRestart]_vars

\* One feed, added by hand, updated by two callers whose calls overlap,
\* and removed.
NextOverlap ==
  \/ \E res \in Documents(News, {}, 0) : AddFeed("f1", res)
  \/ \E u \in Updaters : LoadFeed(u, "f1")
  \/ \E u \in Updaters, res \in BatchResponses : WriteFeed(u, res)
  \/ RemoveFeed("f1")
  \/ Pass

SpecOverlap == InitStore /\ [][NextOverlap]_vars

\* What the fetcher meets at an update and at a refresh of the terminal
\* interface: a failure, or a document of two items.
ReaderResponses ==
  {Response("HTTP 503", NoMeta, <<>>)}
    \cup {Response(None, m, <<Native, Plain>>) : m \in News}

\* Two feeds, added and updated by hand before the terminal interface is
\* opened, and the keys pressed in it.
NextReader ==
  \/ (app.page = "Closed" /\
        \E id \in FeedIds, res \in Documents(News, {}, 0) : AddFeed(id, res))
  \/ (app.page = "Closed" /\
        \E id \in FeedIds, res \in ReaderResponses : UpdateFeed(id, res))
  \/ NewApp
  \/ \E key \in Keys, res \in ReaderResponses : HandleKey(key, res)

SpecReader == InitStore /\ [][NextReader]_vars

\* Two feeds, added by hand, updated and removed.
NextDelete ==
  \/ \E id \in FeedIds, res \in Documents(News, {}, 0) : AddFeed(id, res)
  \/ \E id \in FeedIds, res \in Documents(News, {Native, Plain}, MaxItems) :
       UpdateFeed(id, res)
  \/ \E id \in FeedIds : RemoveFeed(id)
  \/ Pass

SpecDelete == InitStore /\ [][NextDelete]_vars

\* The limits get_unread_entries is called with, and the entry ids
\* mark_read and mark_unread are called with.
Limits == {0 - 1, 0, 1, 100}
MarkIds == {EntryId(Native), EntryId(Plain), "guid-0"}

\* One feed, updated by hand while its entries are marked read and unread
\* and the unread ones are listed.
NextRead ==
  \/ \E res \in Documents(News, {}, 0) : AddFeed("f1", res)
  \/ \E res \in Documents(News, {Native, Plain}, MaxItems) :
       UpdateFeed("f1", res)
  \/ \E id \in MarkIds : MarkRead(id) \/ MarkUnread(id)
  \/ \E limit \in Limits : GetUnreadEntries(limit)
  \/ Pass

SpecRead == InitStore /\ [][NextRead]_vars

\* ----------------------------------------------------------------- claims

\* The ids of the executions a tick has spawned, and of what it has left.
Started(l) == {e.id : e \in newh[l]}
Pending(l) == {todo[l][i].id : i \in 1..Len(todo[l])}

\* The step is the scan of loop l.
IsScan(l) == lpc[l] = "scan" /\ lpc'[l] = "dispatch"

\* C1: in every reachable state the executions in flight are at most the
\* ceiling given to Scheduler::new.
CeilingRespected == Cardinality(inflight) <= max_concurrent

\* A tick found more due tasks than the ceiling, filled the ceiling and
\* skipped a task.
CeilingReached ==
  \E l \in Loops :
    /\ lpc[l] = "dispatch"
    /\ Cardinality(Started(l) \cup denied[l] \cup Pending(l)) > max_concurrent
    /\ Cardinality(inflight) = max_concurrent
    /\ denied[l] # {}

\* C2: at most one execution of a task id is in flight in every reachable
\* state.
OneExecutionPerId ==
  \A e1, e2 \in inflight : e1.id = e2.id => e1 = e2

\* C3: once schedule() has replaced the task of an id while an execution
\* of that id was in flight, no execution of the id starts before that one
\* has finished.
NoOverlapAfterReschedule ==
  [][\A e \in rereg : \A e2 \in inflight' \ inflight : e2.id # e.id]_vars

\* C4: the scan of a tick gives every task it finds due last_run = now and
\* as next_run the earliest fire time of its schedule after now.
ScanAdvancesPastNow ==
  [][\A l \in Loops : IsScan(l) =>
       \A t \in tasks : IsDue(t, now[l]) =>
         \E u \in tasks' :
           /\ u.id = t.id
           /\ u.last_run = now[l]
           /\ u.next_run > now[l]
           /\ IsFire(u.schedule, u.next_run)
           /\ \A k \in (now[l] + 1)..(u.next_run - 1) : ~IsFire(u.schedule, k)]_vars

\* C5: a task that finds no free permit is skipped for the tick and not
\* queued: it is not left in the tick's list and the tick starts no
\* execution of it; a tick starts at most one execution per task, and only
\* of the tasks its scan found due; a released permit starts nothing.
SkippedNotQueued ==
  /\ [](\A l \in Loops :
          /\ denied[l] \cap (Started(l) \cup Pending(l)) = {}
          /\ Started(l) \cap Pending(l) = {}
          /\ \A i, j \in 1..Len(todo[l]) : todo[l][i].id = todo[l][j].id => i = j
          /\ \A e1, e2 \in newh[l] : e1.id = e2.id => e1 = e2)
  /\ [][/\ \A l \in Loops : IsScan(l) =>
             Pending(l)' = {t.id : t \in {u \in tasks : u.next_run <= now[l]}}
        /\ \A e \in inflight' \ inflight :
             /\ lpc[e.by] = "dispatch"
             /\ Head(todo[e.by]).id = e.id
             /\ e.at = now[e.by]
             /\ permits > 0
        /\ permits' > permits => inflight' \subseteq inflight]_vars

\* A tick skipped a task and the permit it wanted has come free within
\* the tick.
SkippedAndPermitFree ==
  \E l \in Loops : lpc[l] = "dispatch" /\ denied[l] # {} /\ permits > 0

\* C6: when stop() returns, no execution is in flight.
StopWaitsForAll == ev.op = "stopReturn" => inflight = {}

\* C7: the registry holds at most one task per id, and schedule() on a
\* registered id replaces its schedule, executor and next_run in one step
\* and leaves the number of tasks as it was.
OneTaskPerId ==
  /\ [](\A id \in Ids : Cardinality(Registered(tasks, id)) <= 1)
  /\ [][(ev'.op \in {"schedule", "reschedule"} /\ ev'.ok
         /\ Registered(tasks, ev'.id) # {}) =>
          /\ Cardinality(tasks') = Cardinality(tasks)
          /\ \A t \in Registered(tasks', ev'.id) :
               /\ t.schedule = Parse(ev'.expr)
               /\ t.executor = ev'.ex
               /\ t.last_run = NoTime
               /\ t.next_run > clock
          /\ tasks' \ Registered(tasks', ev'.id) =
               tasks \ Registered(tasks, ev'.id)]_vars

\* schedule() has replaced a task by one with another schedule and
\* another executor.
TaskReplaced ==
  /\ ev.op = "reschedule"
  /\ Cardinality(tasks) = Cardinality(Ids)
  /\ \E t \in Registered(tasks, ev.id) : t.executor = "x2" /\ t.schedule.every = 2

OutcomeLeavesSchedule ==
  [][ev'.op = "finish" =>
       /\ tasks' = tasks
       /\ lpc' = lpc /\ running' = running
       /\ todo' = todo /\ now' = now /\ since' = since]_vars

\* An execution of a registered task ended with Err.
ExecutionFailed ==
  /\ ev.op = "finish" /\ ~ev.ok
  /\ Registered(tasks, ev.id) # {}

\* C11: start() returns an error exactly when the scheduler is already
\* running, and then changes nothing: the running flag, the loops, the
\* registry, the executions in flight and their permits and handles stay
\* as they were.
StartWhileRunningRejected ==
  [][ev'.op = "start" =>
       /\ ev'.ok <=> ~running
       /\ ~ev'.ok =>
            /\ running' = running /\ lpc' = lpc /\ sig' = sig
            /\ since' = since /\ now' = now /\ todo' = todo /\ newh' = newh
            /\ tasks' = tasks
            /\ inflight' = inflight /\ permits' = permits
            /\ handles' = handles]_vars

\* start() failed while the loop of another caller was in a tick, with a
\* task registered and an execution in flight.
StartFailedWhileTicking ==
  /\ ev.op = "start" /\ ~ev.ok
  /\ \E l \in Loops : l # ev.who /\ lpc[l] = "dispatch"
  /\ tasks # {}
  /\ inflight # {}

\* C12: unschedule(id) returns Ok and removes the task of id, and nothing
\* else: no other task, and no execution, permit, handle or entry of a
\* tick's list changes, so that unschedule of an unregistered id changes
\* nothing; an execution leaves the executions in flight only by ending,
\* and every execution in flight holds one permit.
UnscheduleDoesNotCancel ==
  /\ [](permits + Cardinality(inflight) = max_concurrent)
  /\ [][/\ ev'.op = "unschedule" =>
             /\ ev'.ok
             /\ Registered(tasks', ev'.id) = {}
             /\ \A t \in tasks : t.id # ev'.id => t \in tasks'
             /\ tasks' \subseteq tasks
             /\ inflight' = inflight /\ permits' = permits
             /\ handles' = handles /\ newh' = newh /\ todo' = todo
        /\ ~(inflight \subseteq inflight') => ev'.op = "finish"]_vars

\* unschedule() has removed a task while an execution of it was in flight.
UnscheduledWhileInFlight ==
  /\ ev.op = "unschedule"
  /\ Registered(tasks, ev.id) = {}
  /\ \E e \in inflight : e.id = ev.id /\ e.at > NoTime

\* The step is a call of update_feed.
IsUpdate == clock' = clock /\ call'.op = "update_feed"

\* The rows without their updated_at.
Unstamped(rows) == {[r EXCEPT !.updated_at = NoTime] : r \in rows}

\* C13: no entry id is in two rows, and an update_feed that returns Ok
\* right after an update_feed of the same feed that returned Ok on the
\* same document leaves the entry rows as they were, but for their
\* updated_at, and the entry_count of the feed as it was.
IngestionIdempotent ==
  /\ [](\A e1, e2 \in entries : e1.id = e2.id => e1 = e2)
  /\ [][(IsUpdate /\ call'.repeat) =>
          /\ Unstamped(entries') = Unstamped(entries)
          /\ \A f \in FeedRow(feeds, call'.id) :
               \E g \in FeedRow(feeds', call'.id) :
                 g.entry_count = f.entry_count]_vars

\* A document of two entries was ingested a second time, a second later.
IngestedTwice ==
  /\ call.op = "update_feed" /\ call.repeat
  /\ Len(call.res.items) = 2
  /\ Cardinality(entries) = 2
  /\ \A e \in entries : e.updated_at = clock /\ clock > 0

\* C14: a row that is read stays a row that is read through every call
\* but mark_unread of its id and remove_feed, whatever an update_feed
\* writes into its other columns.
ReadSurvivesIngestion ==
  [][\A e \in entries : e.read =>
       \/ \E r \in entries' : r.id = e.id /\ r.read
       \/ call'.op = "mark_unread" /\ call'.id = e.id
       \/ call'.op = "remove_feed" /\ call'.id = e.feed_id
                                   /\ EntryRow(entries', e.id) = {}]_vars

\* update_feed has written the edited body of an entry, after the clock
\* has moved, into a row that was marked read.
ReadRowRewritten ==
  /\ call.op = "update_feed" /\ call.ok
  /\ PlainBody \in {call.res.items[i] : i \in 1..Len(call.res.items)}
  /\ \E e \in entries :
       /\ e.id = EntryId(PlainBody)
       /\ e.read
       /\ e.summary = PlainBody.summary
       /\ e.updated_at = clock /\ clock > 0

\* C15: an update_feed whose fetch fails returns Err and leaves every
\* entry row and every other feed row as they were; of the row of its feed
\* it sets last_fetched to the time of the call and last_error to the
\* message of the failure, and with them the updated_at of the row, and
\* nothing else.
FailureTouchesOnlyStatus ==
  [][(IsUpdate /\ call'.fetched /\ call'.res.err # None) =>
       /\ ~call'.ok
       /\ entries' = entries
       /\ \A f \in feeds :
            IF f.id = call'.id
            THEN [f EXCEPT !.last_fetched = clock,
                           !.last_error = call'.res.err,
                           !.updated_at = clock] \in feeds'
            ELSE f \in feeds'
       /\ Cardinality(feeds') = Cardinality(feeds)]_vars

\* A fetch has failed for a feed that was fetched with success a second
\* before and has entries.
FailedAfterSuccess ==
  /\ call.op = "update_feed" /\ call.fetched /\ ~call.ok
  /\ \E f \in FeedRow(feeds, call.id) :
       /\ f.last_error \in FetchErrors
       /\ f.last_successful_fetch # NoTime
       /\ f.last_fetched > f.last_successful_fetch
       /\ f.entry_count > 0
       /\ f.title \in {m.title : m \in Metas}
       /\ EntriesOf(entries, f.id) # {}

\* The step is a call of update_all_feeds.
IsBatch == clock' = clock /\ call'.op = "update_all_feeds"

\* C16: update_all_feeds returns Ok whatever the fetches return.  It
\* leaves a feed whose fetch fails with the message of the failure as
\* last_error and with the entry_count it had; every feed whose fetch
\* returns Ok it leaves fetched at the time of the call, without error,
\* with the title and the count of its document, and every entry of the
\* document has a row.
BatchIsolatesFailure ==
  [][IsBatch =>
       /\ call'.ok
       /\ \A f \in feeds : \E g \in FeedRow(feeds', f.id) :
            LET res == call'.batch[f.id] IN
              IF res.err # None
              THEN /\ g.last_error = res.err /\ g.last_error # ""
                   /\ g.entry_count = f.entry_count
                   /\ g.last_successful_fetch = f.last_successful_fetch
              ELSE /\ g.last_error = None
                   /\ g.last_fetched = clock
                   /\ g.last_successful_fetch = clock
                   /\ g.title = res.meta.title
                   /\ g.entry_count = Len(res.items)
                   /\ \A i \in 1..Len(res.items) :
                        EntryRow(entries', EntryId(res.items[i])) # {}]_vars

\* A batch over two feeds that have entries has failed on one and has
\* fetched a new entry for the other.
BatchFailedOnOne ==
  /\ call.op = "update_all_feeds"
  /\ \E k, j \in FeedIds :
       /\ call.batch[k].err # None
       /\ call.batch[j].err = None /\ call.batch[j].items # <<>>
       /\ \E f \in FeedRow(feeds, k) :
            /\ f.entry_count > 0 /\ f.last_successful_fetch < clock
            /\ f.last_fetched = clock
       /\ \E g \in FeedRow(feeds, j) : g.last_successful_fetch = clock
       /\ \E e \in EntriesOf(entries, j) : e.updated_at = clock

\* C17: right after an update_feed that returned Ok, the entry_count of
\* the feed is the number of the entry rows of the feed.
EntryCountMirrorsRows ==
  [][(IsUpdate /\ call'.ok) =>
       \A f \in FeedRow(feeds', call'.id) :
         f.entry_count = Cardinality(EntriesOf(entries', f.id))]_vars

\* The feed row an update_feed of feed id has to leave at second t after
\* a fetch of res: no error, both fetch times t, the metadata of res.
FeedCarries(fs, id, res, t) ==
  \E f \in FeedRow(fs, id) :
    /\ f.last_error = None
    /\ f.last_fetched = t
    /\ f.last_successful_fetch = t
    /\ f.title = res.meta.title
    /\ f.description = res.meta.description
    /\ f.site_url = res.meta.site_url

\* A row of feed id carries the fields of item.
RowCarries(es, id, item) ==
  \E e \in EntryRow(es, EntryId(item)) :
    /\ e.feed_id = id
    /\ e.title = item.title
    /\ e.url = item.link
    /\ e.published = item.published
    /\ e.summary = item.summary

\* C18 as claimed: after an update_feed that returned Ok the feed row
\* carries no error, the time of the fetch and the fetched metadata, and
\* every fetched entry has a row of the feed that carries its fields.
SuccessWritesEveryEntry ==
  [][(IsUpdate /\ call'.ok) =>
       /\ FeedCarries(feeds', call'.id, call'.res, clock)
       /\ \A i \in 1..Len(call'.res.items) :
            RowCarries(entries', call'.id, call'.res.items[i])]_vars

\* C18 as it holds: after an update_feed that returned Ok the feed row
\* carries no error, the time of the fetch and the fetched metadata, and
\* every fetched entry has a row of the feed under its id, which carries
\* the fields of the last fetched entry of that id.
SuccessWritesLastOfEachId ==
  [][(IsUpdate /\ call'.ok) =>
       LET items == call'.res.items IN
         /\ FeedCarries(feeds', call'.id, call'.res, clock)
         /\ \A i \in 1..Len(items) :
              /\ \E e \in EntryRow(entries', EntryId(items[i])) :
                   e.feed_id = call'.id
              /\ (\A j \in (i + 1)..Len(items) :
                    EntryId(items[j]) # EntryId(items[i]))
                   => RowCarries(entries', call'.id, items[i])]_vars

\* An update_feed, after the clock has moved, has ingested a document that
\* holds an entry and, after it, the same entry with its body edited.
SuccessWithEditedTwin ==
  /\ call.op = "update_feed" /\ call.ok
  /\ call.res.items = <<Plain, PlainBody>>
  /\ \E f \in FeedRow(feeds, call.id) :
       f.last_fetched = clock /\ clock > 0 /\ f.title = "News"
  /\ \E e \in entries : e.summary = PlainBody.summary /\ e.updated_at = clock

\* C19: update_feed of an id without a feed row returns Err, calls the
\* fetcher not at all and leaves every feed row and entry row as it was.
MissingFeedRejected ==
  [][(IsUpdate /\ FeedRow(feeds, call'.id) = {}) =>
       /\ ~call'.ok
       /\ ~call'.fetched
       /\ feeds' = feeds
       /\ entries' = entries]_vars

\* update_feed was called, after the clock has moved, on an id that has no
\* feed row.
UpdatedMissingFeed ==
  /\ call.op = "update_feed" /\ ~call.ok /\ ~call.fetched
  /\ FeedRow(feeds, call.id) = {}
  /\ clock > 0

\* C20: an article keeps its id, and so its one row, when it is fetched
\* again unchanged or lightly edited: an update_feed that returns Ok on a
\* document whose items are all renditions of articles the feed has a row
\* of (a row of their link) adds no row.
RefetchedArticleKeepsItsRow ==
  [][(/\ IsUpdate /\ call'.ok
      /\ \A i \in 1..Len(call'.res.items) :
           \E e \in EntriesOf(entries, call'.id) :
             e.url = call'.res.items[i].link) =>
       Cardinality(entries') = Cardinality(entries)]_vars


\* The step is a return of summarize().
Returns == last' # last /\ last'.op = "summarize"

\* The last two calls that returned are calls of summarize() on one client
\* with the same content, with nothing of the client called in between.
Successive ==
  /\ last.op = "summarize" /\ before.op = "summarize"
  /\ before.content = last.content

\* C21: with the cache enabled, a call that returns a summary it did not
\* take from the cache has called one provider and leaves the text under
\* its key; a call that returns a cached summary has called no provider;
\* and a call that comes right after a call of the same content that
\* returned Ok is a hit that returns the text that call returned, and
\* leaves the cache as it was.
HitAfterMiss ==
  /\ [](last.op = "summarize" /\ config.enable_cache =>
          /\ last.cached => last.ok /\ last.invoked = 0
          /\ (last.ok /\ ~last.cached) => last.invoked = 1
          /\ (Successive /\ before.ok) =>
               /\ last.ok /\ last.cached /\ last.invoked = 0
               /\ last.text = before.text)
  /\ [][(Returns /\ config.enable_cache) =>
          /\ (last'.ok /\ ~last'.cached) =>
               CacheGet(cache', last'.key) = {last'.text}
          /\ last'.cached => cache' = cache]_vars

\* A call was a miss that called the provider, and the call of the same
\* content after it was a hit.
MissThenHit ==
  /\ config.enable_cache
  /\ Successive
  /\ before.ok /\ ~before.cached /\ before.invoked = 1
  /\ last.cached /\ last.text = before.text
  /\ [content |-> last.content, text |-> last.text] \in provided

\* C22: a call whose provider fails returns the error of the provider and
\* leaves the cache as it was, and the call of the same content that comes
\* right after a failed call calls the provider again.
NoNegativeCaching ==
  /\ [](last.op = "summarize" =>
          /\ ~last.ok => /\ last.text \in ProviderErrors
                         /\ last.invoked = 1 /\ ~last.cached
          /\ (Successive /\ ~before.ok) => last.invoked = 1 /\ ~last.cached)
  /\ [][(Returns /\ ~last'.ok) => cache' = cache]_vars

\* A call has failed on a client whose cache holds a summary of the other
\* content, and the call of the same content after it has got a summary
\* from the provider.
RetriedAfterFailure ==
  /\ config.enable_cache
  /\ Successive
  /\ ~before.ok
  /\ last.ok /\ ~last.cached /\ last.invoked = 1
  /\ Cardinality(cache) = 2

\* The number of the components in which the last two calls differ.
Differ(a, b) == IF a = b THEN 0 ELSE 1
Changed ==
  Differ(before.content, last.content) + Differ(before.prompt, last.prompt)
    + Differ(before.model, last.model)

\* C23: two calls of the same content, prompt and model have the same key,
\* two calls that differ in one of the three have different keys, and a
\* hit returns a text the provider returned for the content of the call.
KeyDistinguishes ==
  (last.key # None /\ before.key # None) =>
    /\ Changed = 0 => last.key = before.key
    /\ Changed = 1 => last.key # before.key
    /\ last.cached =>
         [content |-> last.content, text |-> last.text] \in provided

\* Two calls that differ in the model alone have returned one after the
\* other, and two that differ in the prompt alone.
ModelChanged ==
  /\ last.key # None /\ before.key # None
  /\ Changed = 1 /\ last.model # before.model
PromptChanged ==
  /\ last.key # None /\ before.key # None
  /\ Changed = 1 /\ last.prompt # before.prompt /\ last.cached = FALSE

\* The calls of a provider the calls under way and the last calls of the
\* callers have made.
Invocations(S) == Cardinality({c \in S : sum[c].invoked = 1})

\* C24: while the callers call side by side, no call waits with a guard of
\* the cache in its hand; every call calls a provider once at most, a hit
\* not at all and a miss that has got its text once; every call that has
\* returned Ok has returned a text a provider returned for its content;
\* the cache holds one text at most under a key, and holds a text under
\* the key of every call that has returned Ok.
ConcurrentMissesBenign ==
  /\ readers = {}
  /\ \A c \in Summarizers :
       /\ sum[c].invoked \in {0, 1}
       /\ sum[c].cached => sum[c].invoked = 0
       /\ (sum[c].pc \in {"insert", "idle"} /\ sum[c].content # ""
            /\ ~sum[c].cached) => sum[c].invoked = 1
  /\ \A c \in Summarizers :
       (sum[c].pc = "idle" /\ sum[c].ok /\ sum[c].content # "") =>
         /\ [content |-> sum[c].content, text |-> sum[c].text] \in provided
         /\ Cardinality(CacheGet(cache, sum[c].key)) = 1
  /\ \A e1, e2 \in cache : e1.key = e2.key => e1 = e2

\* Both callers have missed on the same content, both have called the
\* provider, which has returned two texts, and both have returned.
MissedTwice ==
  /\ \A c \in Summarizers :
       /\ sum[c].pc = "idle" /\ sum[c].ok /\ ~sum[c].cached
       /\ sum[c].content = "a"
  /\ sum["c1"].text # sum["c2"].text
  /\ Invocations(Summarizers) = Cardinality(Summarizers)
  /\ Cardinality(cache) = 1


\* The step is a call of remove_feed.
IsRemove == clock' = clock /\ call'.op = "remove_feed"

\* C25: remove_feed(id) leaves no feed row of id and no entry row of feed
\* id, and leaves every other feed row and every entry row of another feed
\* as it was.
DeleteCascades ==
  [][IsRemove =>
       /\ FeedRow(feeds', call'.id) = {}
       /\ EntriesOf(entries', call'.id) = {}
       /\ feeds' = {f \in feeds : f.id # call'.id}
       /\ entries' = {e \in entries : e.feed_id # call'.id}]_vars

\* A feed was removed with its entry rows while another feed has entry
\* rows.
RemovedWithEntries ==
  /\ call.op = "remove_feed" /\ call.gone > 0
  /\ FeedRow(feeds, call.id) = {}
  /\ \E f \in feeds : EntriesOf(entries, f.id) # {}

\* The rows without their read flag and their updated_at.
Unflagged(rows) ==
  {[r EXCEPT !.read = FALSE, !.updated_at = NoTime] : r \in rows}

\* The step is a call of mark_read or of mark_unread.
IsMark == clock' = clock /\ call'.op \in {"mark_read", "mark_unread"}

\* C26: a row that is new is unread; mark_read(id) and mark_unread(id)
\* leave the row of id read and unread, change no other row and, but for
\* the flag and updated_at, nothing of the row of id, and called on a row
\* that has the flag already they leave every row as it was but for that
\* updated_at; get_unread_entries(limit) returns unread rows, each once,
\* all of them when the limit is negative or not below their number, and
\* as many as the limit otherwise.
ReadFlagToggles ==
  [][/\ \A e \in entries' : EntryRow(entries, e.id) = {} => ~e.read
     /\ IsMark =>
          /\ \A e \in entries' :
               IF e.id = call'.id THEN e.read = (call'.op = "mark_read")
               ELSE e \in entries
          /\ Unflagged(entries') = Unflagged(entries)
          /\ Cardinality(entries') = Cardinality(entries)
          /\ (\A e \in EntryRow(entries, call'.id) :
                e.read = (call'.op = "mark_read"))
               => Unstamped(entries') = Unstamped(entries)
     /\ (clock' = clock /\ call'.op = "get_unread_entries") =>
          LET rows == call'.rows
              unread == {e \in entries : ~e.read}
          IN  /\ \A i \in 1..Len(rows) : rows[i] \in unread
              /\ \A i, j \in 1..Len(rows) : rows[i] = rows[j] => i = j
              /\ Len(rows) = IF call'.limit < 0
                                \/ call'.limit > Cardinality(unread)
                             THEN Cardinality(unread) ELSE call'.limit
              /\ entries' = entries]_vars

\* Of two entries one is read, and get_unread_entries has returned the
\* other under a limit above one.
UnreadListed ==
  /\ call.op = "get_unread_entries" /\ call.limit > 1
  /\ Len(call.rows) = 1
  /\ Cardinality(entries) = 2
  /\ \E e \in entries : e.read /\ e.updated_at > 0


\* A call of stop() has returned since the scheduler was last started, or
\* the scheduler was never started: the flag is down and no stop() is
\* under way.
Stopped == ~running /\ \A s \in Stoppers : spc[s] = "idle"

\* C27: once stop() has returned, and until start() is called again, no
\* loop goes into a tick and no execution is spawned.
NoTickAfterStop ==
  [][Stopped =>
       /\ \A l \in Loops : ~(lpc[l] = "select" /\ lpc'[l] = "scan")
       /\ inflight' \subseteq inflight]_vars


\* Loop l is at the end of a tick with handles to store.
AtBookkeeping(l) == lpc[l] = "dispatch" /\ todo[l] = <<>> /\ newh[l] # {}

\* C28: no tick waits for an execution to finish: a tick that is to store
\* its handles finds the handles lock free, or in the hand of a stop()
\* that has no execution left to wait for.
TickNeverWaits ==
  \A l \in Loops : AtBookkeeping(l) => (hlock = "free" \/ handles = {})


\* C29: the tasks lock is in no hand between two steps, those of a tick
\* and of an execution among them, so that with executions in flight
\* schedule() and unschedule() can take their step for every id; and a
\* step of a tick other than the scan, and the end of an execution, leave
\* the registry as it was.
RegistryNeverBlocked ==
  /\ [](tlock = "free")
  /\ [](inflight # {} =>
          \A id \in Ids :
            /\ ENABLED Unschedule(id)
            /\ ENABLED Schedule(id, "*/2 * * * * *", "x1"))
  /\ [][ev'.op \in {"tick", "spawn", "skip", "tickEnd", "finish"} =>
          tasks' = tasks]_vars

\* schedule() has registered a task while a tick was in its dispatch loop
\* and an execution was in flight.
ScheduledDuringDispatch ==
  /\ ev.op \in {"schedule", "reschedule"} /\ ev.ok
  /\ inflight # {}
  /\ \E l \in Loops : lpc[l] = "dispatch" /\ todo[l] # <<>>

\* The step ends executions, and the executions it ends.
Completed == inflight \ inflight'
IsCompletion == ev'.op = "finish" /\ Completed # {}

\* A tick takes every task that is due at its `now` into its list, and the
\* turn of a task that finds a permit free spawns its execution, stamped
\* with the tick's `now`.
DueIsDispatched ==
  \A l \in Loops :
    /\ IsScan(l) =>
         \A t \in tasks : t.next_run <= now[l] => t.id \in Pending(l)'
    /\ (/\ lpc[l] = "dispatch" /\ todo[l] # <<>> /\ todo'[l] # todo[l]
        /\ permits > 0) =>
         /\ Execution(l) \in inflight' \ inflight
         /\ Execution(l).at = now[l]

\* The feed row after the update of a task that was dispatched at second
\* at and has fetched res: it carries res and the time of the fetch, which
\* is not before the dispatch nor before the last successful fetch.
FeedAdvanced(ex, at, res) ==
  /\ FeedCarries(feeds', ex, res, clock')
  /\ at <= clock'
  /\ \A f \in FeedRow(feeds, ex) : f.last_successful_fetch <= clock'

\* With the loop of l at its select and the task of id due by the end
\* of the sleep, the next tick takes the turn of the task: it spawns an
\* execution of it, stamped with its `now`, or finds no permit for it.  An
\* execution that is spawned ends.
EventuallyRuns ==
  \A id \in Ids :
    /\ \A l \in Loops :
         (/\ lpc[l] = "select"
          /\ since[l] + TickInterval <= MaxTime
          /\ \E t \in Registered(tasks, id) :
               t.next_run <= since[l] + TickInterval)
           ~> (\/ \E e \in inflight : e.id = id /\ e.by = l /\ e.at = now[l]
               \/ id \in denied[l])
    /\ (\E e \in inflight : e.id = id) ~> (ev.op = "finish" /\ ev.id = id)

\* C30 as claimed: a task that updates a feed and is due at a tick of the
\* running loop is dispatched at that tick when its turn finds a permit
\* free, and its execution ends; when it ends after a fetch that succeeded
\* the feed row carries the time of the fetch, and every fetched item has
\* a row of the feed that carries its fields.
ScheduledIngestionPerItem ==
  /\ [][/\ DueIsDispatched
        /\ (IsCompletion /\ ev'.ok) =>
             \A e \in Completed :
               /\ FeedAdvanced(e.ex, e.at, call'.res)
               /\ \A i \in 1..Len(call'.res.items) :
                    RowCarries(entries', e.ex, call'.res.items[i])]_vars
  /\ EventuallyRuns

\* C30 as it holds: the same, but that every fetched item has a row of the
\* feed under its id, which carries the fields of the last fetched item of
\* that id.
ScheduledIngestion ==
  /\ [][/\ DueIsDispatched
        /\ (IsCompletion /\ ev'.ok) =>
             \A e \in Completed :
               LET items == call'.res.items IN
                 /\ FeedAdvanced(e.ex, e.at, call'.res)
                 /\ \A i \in 1..Len(items) :
                      /\ \E r \in EntryRow(entries', EntryId(items[i])) :
                           r.feed_id = e.ex
                      /\ (\A j \in (i + 1)..Len(items) :
                            EntryId(items[j]) # EntryId(items[i]))
                           => RowCarries(entries', e.ex, items[i])]_vars
  /\ EventuallyRuns

\* The execution of a task that a tick has dispatched has ended after the
\* fetch of a document that holds an entry and, after it, the same entry
\* with its body edited.
IngestedOnSchedule ==
  /\ ev.op = "finish" /\ ev.ok /\ ev.ex = "f1" /\ ev.who = "l1"
  /\ call.op = "update_feed" /\ call.id = "f1"
  /\ call.res.items = <<Plain, PlainBody>>
  /\ clock > 0
  /\ \E f \in FeedRow(feeds, "f1") : f.last_successful_fetch = clock
  /\ \E r \in EntriesOf(entries, "f1") : r.summary = PlainBody.summary

\* C31: update_all_feeds calls update_feed for every enabled feed and for
\* no disabled feed: the row of an enabled feed carries the time of the
\* call as last_fetched, and the row and the entries of a disabled feed
\* are as they were.
BatchSkipsDisabled ==
  [][IsBatch =>
       \A f \in feeds :
         IF f.enabled
         THEN \E g \in FeedRow(feeds', f.id) : g.last_fetched = clock
         ELSE /\ FeedRow(feeds', f.id) = {f}
              /\ EntriesOf(entries', f.id) = EntriesOf(entries, f.id)]_vars

\* C37: update_feed of a feed leaves the row of every other feed as it
\* was, and the entry rows of every other feed: it takes none away,
\* changes none and adds none, whatever ids the fetched items carry.
FeedRunsIndependent ==
  [][IsUpdate =>
       /\ \A f \in feeds : f.id # call'.id => f \in feeds'
       /\ \A e \in entries : e.feed_id # call'.id => e \in entries'
       /\ \A e \in entries' : e.feed_id # call'.id => e \in entries]_vars

\* The ids of the entry rows of a feed.
IdsOf(es, feed_id) == {e.id : e \in EntriesOf(es, feed_id)}

\* C32: a step that is no remove_feed takes no entry row away, and but for
\* a remove_feed of the feed the ids of the entry rows of a feed never get
\* fewer, whatever a later document no longer holds.
EntriesGoOnlyByCascade ==
  [][/\ ~IsRemove => {e.id : e \in entries} \subseteq {e.id : e \in entries'}
     /\ \A id \in FeedIds :
          ~(IsRemove /\ call'.id = id) =>
            IdsOf(entries, id) \subseteq IdsOf(entries', id)]_vars

\* C33: the free permits and the executions in flight add up to
\* max_concurrent; a spawn takes one permit for the one execution it
\* adds, a skip takes none and adds none, the end of an execution gives
\* one permit back for the one execution that goes, with Ok or with Err,
\* and no other step touches either.
PermitsAccounted ==
  /\ [](permits + Cardinality(inflight) = max_concurrent)
  /\ [][CASE ev'.op = "spawn" /\ ev' # ev ->
               /\ permits' = permits - 1
               /\ \E e \in inflight' \ inflight :
                    /\ inflight' = inflight \cup {e}
                    /\ e.id = ev'.id
          [] ev'.op = "finish" /\ inflight' # inflight ->
               /\ permits' = permits + 1
               /\ \E e \in inflight : inflight' = inflight \ {e} /\ e.id = ev'.id
          [] OTHER -> permits' = permits /\ inflight' = inflight]_vars

\* An execution has ended with Err while another was in flight and a
\* task had been skipped, and the permit is free again.
ReleasedAfterFailure ==
  /\ ev.op = "finish" /\ ~ev.ok
  /\ max_concurrent = 2 /\ permits = 1 /\ Cardinality(inflight) = 1
  /\ \E l \in Loops : denied[l] # {}

\* C34: at most one call of start() is inside the loop of start().
OneLoopAtATime == Cardinality({l \in Loops : Subscribed(l)}) <= 1

\* C35: when unschedule(id) has returned, id is not registered, and it
\* stays so until a schedule(id) registers it; a scan takes no id that
\* is not registered into the list of its tick; and an execution starts
\* only for the head of the list of a tick, with the `now` of that tick.
\* So a tick that scans while id is unregistered dispatches no id, and an
\* execution of an id that is unregistered starts only from a tick whose
\* scan had taken it.
UnscheduledNotDispatched ==
  [][/\ ev'.op = "unschedule" => Registered(tasks', ev'.id) = {}
     /\ \A id \in Ids :
          (Registered(tasks, id) = {} /\ Registered(tasks', id) # {}) =>
            ev'.op = "schedule" /\ ev'.id = id /\ ev'.ok
     /\ \A l \in Loops :
          /\ IsScan(l) =>
               \A id \in Ids : Registered(tasks, id) = {} => id \notin Pending(l)'
          /\ ~IsScan(l) => Pending(l)' \subseteq Pending(l)
     /\ \A e \in inflight' \ inflight :
          /\ todo[e.by] # <<>> /\ Head(todo[e.by]).id = e.id
          /\ e.at = now[e.by]]_vars

\* A tick has started an execution of a task that was unscheduled after
\* the scan of the tick, and the task is not registered.
DispatchedAfterUnschedule ==
  /\ ev.op = "spawn"
  /\ Registered(tasks, ev.id) = {}
  /\ \E e \in inflight : e.id = ev.id /\ e.by = ev.who /\ e.at = now[ev.who]

\* C39: on a client whose cache is disabled the cache is empty and no
\* caller holds a guard of it, computes a key or is at the insert, and a
\* call of summarize() that has returned was no hit and has called the
\* provider.
DisabledCacheUnused ==
  ~config.enable_cache =>
    /\ cache = {}
    /\ readers = {}
    /\ \A c \in Summarizers :
         sum[c].pc # "idle" =>
           sum[c].pc = "provider" /\ sum[c].key = None /\ ~sum[c].cached
    /\ last.op = "summarize" =>
         ~last.cached /\ last.invoked = 1 /\ last.key = None

\* With the cache disabled summarize() has returned a text for a content
\* for which the call before it had returned a text.
SummarizedTwiceUncached ==
  /\ ~config.enable_cache
  /\ last.op = "summarize" /\ last.ok /\ last.invoked = 1
  /\ before.op = "summarize" /\ before.ok /\ before.key = None
  /\ before.content = last.content

\* C36: a call of update_feed that returns the Err of its fetch leaves the
\* last_successful_fetch, the entry_count and the metadata of the row as
\* they are at its write, whatever a call that overlapped it has written
\* since it read the row.
FailureKeepsSuccess ==
  [][(call'.op = "update_feed" /\ call'.fetched /\ ~call'.ok
        /\ \E u \in Updaters : upd[u] # {} /\ upd'[u] = {}) =>
       \A f \in FeedRow(feeds, call'.id) :
         \E g \in FeedRow(feeds', call'.id) :
           /\ g.last_successful_fetch = f.last_successful_fetch
           /\ g.entry_count = f.entry_count
           /\ g.title = f.title
           /\ g.description = f.description
           /\ g.site_url = f.site_url]_vars

\* C38: a feed that has no row gets one, or an entry, by add_feed alone.
DeletedStaysDeleted ==
  [][\A id \in FeedIds :
       (FeedRow(feeds, id) = {} /\ EntriesOf(entries, id) = {}
          /\ ~(call'.op = "add_feed" /\ call'.id = id)) =>
         FeedRow(feeds', id) = {} /\ EntriesOf(entries', id) = {}]_vars

\* C40: the read flag of the current entry of the reader is the read flag
\* of its row in the store.
CurrentEntryAsStored ==
  \A c \in app.current_entry :
    \A e \in EntryRow(entries, c.id) : e.read = c.read

=============================================================================
